---- MODULE Spec2Model ----
(***************************************************************************)
(* Event coordination and region-of-interest sampling of the gem5 configs: *)
(* EventTime, EventCoordinator, EventManager (util/event_managers/         *)
(* event_manager.py), PeriodicROIManager (roi/periodic.py) and             *)
(* SimpleROIManager (roi/simple.py), with the part of the simulator they   *)
(* call (instruction counter, statistics, stop requests, processor).       *)
(*                                                                         *)
(* An Optional[int] is a set: {} is None and {n} is the integer n.         *)
(* A Python exception ends the process: err names it and nothing runs      *)
(* after it.                                                               *)
(***************************************************************************)
EXTENDS Integers, Sequences, FiniteSets, TLC

VARIABLES
    mgrs,      \* EventCoordinator._managers: the managers, in registration order
    coord,     \* the EventCoordinator's fields
    sim,       \* the simulator (engine) behind the coordinator
    err,       \* "none", or the exception that ended the process
    last,      \* what the last operation did: its kind, verdict and call log
    nEvents,   \* exit events dispatched so far
    stopped,   \* the last dispatch returned stop=true: Simulator.run() returned
    pts        \* EventTime objects by identity (the heap EventTime.add works on)

vars == <<mgrs, coord, sim, err, last, nEvents, stopped, pts>>

-----------------------------------------------------------------------------
(* Bounds of the model *)

\* largest interval (in instructions) a manager is configured with
MaxInterval == 2
\* largest num_rois cap
MaxRois == 2
\* exit events dispatched in one run of the general specification
MaxEvents == 4
\* exit events dispatched in one run of a coordinator with several managers
MaxCoordEvents == 3
\* exit events dispatched in one run driven by MAX_INSTS alone
MaxSeqEvents == 8
\* exit events dispatched in one run that is resumed after a stop verdict
MaxLiveEvents == 5
\* exit events dispatched in one run that ends at its first stop verdict
MaxCapEvents == 7
\* managers registered with one coordinator
MaxMgrs == 2
\* instructions the engine runs before an unscheduled exit event
MaxStep == 1
\* largest axis value of the points EventTime.add is applied to
MaxAxis == 1
\* EventTime objects alive at once
MaxPts == 3
\* direct switch_processor calls per manager
MaxCalls == 3

-----------------------------------------------------------------------------
(* Optional values and small helpers *)

None == {}
Some(n) == {n}
Val(o) == CHOOSE n \in o : TRUE

Min(S) == CHOOSE x \in S : \A y \in S : x <= y

Kinds == {"CHECKPOINT", "MAX_INSTS", "SIMPOINT_BEGIN", "WORKBEGIN", "WORKEND", "EXIT"}
UnscheduledKinds == Kinds \ {"MAX_INSTS"}

-----------------------------------------------------------------------------
(* EventTime *)

EventTime(i, c, t) == [instruction |-> i, cycle |-> c, tick |-> t]

\* EventTime(): no axis defined
NoTime == EventTime(None, None, None)

\* SumAxis with an undefined axis counted as zero
SumAxisNoneAsZero(x, y) ==
    Some((IF x # None THEN Val(x) ELSE 0) + (IF y # None THEN Val(y) ELSE 0))

\* one axis of EventTime.add: the sum when both are defined, else None
SumAxis(x, y) == IF x # None /\ y # None THEN Some(Val(x) + Val(y)) ELSE None

\* EventTime.add: a new EventTime built from the three sums
add(self, other) ==
    EventTime(SumAxis(self.instruction, other.instruction),
              SumAxis(self.cycle, other.cycle),
              SumAxis(self.tick, other.tick))

-----------------------------------------------------------------------------
(* The call log of one operation.  Each entry is one call or one yield:    *)
(* op names it, m is the manager it concerns (0: the coordinator), v and u *)
(* are its numbers (0 when it has none).                                   *)

Entry(op, m, v, u) == [op |-> op, m |-> m, v |-> v, u |-> u]

Log(w, op, m, v, u) == [w EXCEPT !.log = Append(@, Entry(op, m, v, u))]

Raise(w, e) == [w EXCEPT !.err = e]

Ok(w) == w.err = "none"

-----------------------------------------------------------------------------
(* The simulator, as far as the coordinator and the managers use it *)

\* stats["simInsts"].value: instructions since the last statistics reset
SimInsts(w) == w.sim.simInsts

\* m5.stats.reset(): the live counter restarts at zero
StatsReset(w) == [w EXCEPT !.sim.simInsts = 0]

\* m5.stats.dump(): a statistics block of the instructions since the last reset
StatsDump(w) == Log(w, "m5.stats.dump", 0, SimInsts(w), 0)

\* Simulator.schedule_max_insts(n): stop after n further instructions
ScheduleMaxInsts(w, n) ==
    Log([w EXCEPT !.sim.stops = @ \cup {w.sim.insts + n}],
        "schedule_max_insts", 0, n, 0)

\* processor.switch(): the other core becomes the active one
ProcessorSwitch(w) ==
    [w EXCEPT !.sim.proc = IF @ = "ff" THEN "detailed" ELSE "ff"]

-----------------------------------------------------------------------------
(* EventCoordinator: time and statistics *)

\* CoordGetCurrentTime with the live count alone for the instruction axis
CoordGetCurrentTimeLive(w) ==
    IF ~w.coord.simulator \/ ~w.sim.instantiated
    THEN EventTime(Some(0), Some(0), Some(0))
    ELSE EventTime(Some(SimInsts(w)), Some(w.coord.total_cycles), Some(0))

\* EventCoordinator.get_current_time
CoordGetCurrentTime(w) ==
    IF ~w.coord.simulator \/ ~w.sim.instantiated
    THEN EventTime(Some(0), Some(0), Some(0))
    ELSE EventTime(Some(w.coord.total_instructions + SimInsts(w)),
                   Some(w.coord.total_cycles),
                   Some(0))

\* ResetAccumulate with `=` for `+=`
ResetAssign(total, live) == live

\* ResetAccumulate without the accumulation
ResetForget(total, live) == total

\* total_instructions after reset_stats has read the live count
ResetAccumulate(total, live) == total + live

\* CoordResetStats without the test for a simulator: the statistics are asked
\* of None
CoordResetStatsUnguarded(w) ==
    IF ~Ok(w) THEN w
    ELSE IF ~w.coord.simulator THEN Raise(w, "AttributeError")
    ELSE LET before == Val(CoordGetCurrentTime(w).instruction)
             w1 == [w EXCEPT !.coord.total_instructions =
                                 ResetAccumulate(@, SimInsts(w)),
                             !.coord.total_cycles = @ + 0]
             w2 == StatsReset(w1)
         IN  Log(w2, "coord.reset_stats", 0, before,
                 Val(CoordGetCurrentTime(w2).instruction))

\* EventCoordinator.reset_stats
CoordResetStats(w) ==
    IF ~Ok(w) THEN w
    ELSE IF ~w.coord.simulator THEN Log(w, "coord.reset_stats.skip", 0, 0, 0)
    ELSE LET before == Val(CoordGetCurrentTime(w).instruction)
             w1 == [w EXCEPT !.coord.total_instructions =
                                 ResetAccumulate(@, SimInsts(w)),
                             !.coord.total_cycles = @ + 0]
             w2 == StatsReset(w1)
         IN  Log(w2, "coord.reset_stats", 0, before,
                 Val(CoordGetCurrentTime(w2).instruction))

\* EventCoordinator.dump_stats
CoordDumpStats(w) ==
    IF ~Ok(w) THEN w
    ELSE IF ~w.coord.simulator THEN Log(w, "coord.dump_stats.skip", 0, 0, 0)
    ELSE StatsDump(Log(w, "coord.dump_stats", 0, 0, 0))

-----------------------------------------------------------------------------
(* EventManager: the plumbing every manager shares *)

\* EventManager.set_next_event
MgrSetNextEvent(w, i, interval) ==
    IF ~Ok(w) THEN w
    ELSE [w EXCEPT !.mgrs[i].next_event = interval, !.mgrs[i].set_at = w.sim.insts]

\* EventManager.clear_next_event
MgrClearNextEvent(w, i) ==
    IF ~Ok(w) THEN w ELSE [w EXCEPT !.mgrs[i].next_event = NoTime]

\* EventManager.get_next_event
MgrGetNextEvent(w, i) == w.mgrs[i].next_event

\* EventManager.get_current_time
MgrGetCurrentTime(w, i) ==
    IF w.mgrs[i].coordinator THEN CoordGetCurrentTime(w)
    ELSE EventTime(Some(0), Some(0), Some(0))

\* MgrRegister without the assignment of the coordinator
MgrRegisterForget(w, i) == w

\* EventManager.register
MgrRegister(w, i) == [w EXCEPT !.mgrs[i].coordinator = TRUE]

\* EventManager.reset_stats
MgrResetStats(w, i) ==
    IF ~Ok(w) THEN w
    ELSE LET w1 == Log([w EXCEPT !.mgrs[i].nReset = @ + 1], "resetStats", i, 0, 0)
         IN  IF ~w.mgrs[i].coordinator THEN w1 ELSE CoordResetStats(w1)

\* EventManager.dump_stats
MgrDumpStats(w, i) ==
    IF ~Ok(w) THEN w
    ELSE LET w1 == Log([w EXCEPT !.mgrs[i].nDump = @ + 1], "dumpStats", i, 0, 0)
         IN  IF ~w.mgrs[i].coordinator THEN w1 ELSE CoordDumpStats(w1)

\* EventManager.validate_simulator: the exception it raises, or "none"
ValidateSimulator(w, i) ==
    IF ~w.mgrs[i].coordinator THEN "ValueError"
    ELSE IF ~w.coord.simulator THEN "ValueError"
    ELSE IF ~w.sim.instantiated THEN "ValueError"
    ELSE "none"

\* EventManager.switch_processor
MgrSwitchProcessor(w, i) ==
    IF ~Ok(w) THEN w
    ELSE LET w1 == Log([w EXCEPT !.mgrs[i].nSwitch = @ + 1], "switchProcessor", i, 0, 0)
         IN  IF ValidateSimulator(w1, i) # "none" THEN Raise(w1, ValidateSimulator(w1, i))
             ELSE IF w1.sim.switch = "absent" THEN Raise(w1, "AttributeError")
             ELSE IF w1.sim.switch = "notcallable" THEN Raise(w1, "ValueError")
             ELSE Log(ProcessorSwitch(w1), "processor.switch", i, 0, 0)

\* a handler's yield: the verdict handed to the coordinator's next()
YieldOp(r) ==
    CASE r = "True" -> "yield_True"
      [] r = "False" -> "yield_False"
      [] OTHER -> "yield_None"

Yield(w, i, r) ==
    IF ~Ok(w) THEN w ELSE Log([w EXCEPT !.ret = r], YieldOp(r), i, 0, 0)

\* an assignment to a field of manager i
Assign(w, i, f, v) ==
    IF ~Ok(w) THEN w ELSE [w EXCEPT !.mgrs[i][f] = v]

-----------------------------------------------------------------------------
(* EventCoordinator._schedule *)

\* Closer without the comparison: the first defined axis is kept
CloserFirst(closest, next) ==
    IF next # None /\ closest = None THEN next ELSE closest

\* one axis of the merge loop: the closest event so far against a manager's
Closer(closest, next) ==
    IF next # None /\ (closest = None \/ Val(closest) > Val(next))
    THEN next ELSE closest

\* the loop over the managers, from manager idx on
RECURSIVE MergeLoop(_, _, _)
MergeLoop(w, idx, closest_event) ==
    IF idx > Len(w.mgrs) THEN closest_event
    ELSE LET next_event == MgrGetNextEvent(w, idx)
         IN  MergeLoop(w, idx + 1,
                 EventTime(Closer(closest_event.instruction, next_event.instruction),
                           Closer(closest_event.cycle, next_event.cycle),
                           Closer(closest_event.tick, next_event.tick)))

\* Schedule with the cycle and tick axes dropped without an error
ScheduleSilent(w) ==
    IF ~Ok(w) THEN w
    ELSE LET current_time == CoordGetCurrentTime(w)
             closest_event == MergeLoop(w, 1, NoTime)
             w0 == Log(w, "_schedule", 0, 0, 0)
         IN  IF /\ closest_event.instruction # None
                /\ current_time.instruction # None
                /\ w0.coord.simulator
             THEN ScheduleMaxInsts(w0, Val(closest_event.instruction))
             ELSE w0

\* EventCoordinator._schedule
Schedule(w) ==
    IF ~Ok(w) THEN w
    ELSE LET current_time == CoordGetCurrentTime(w)
             closest_event == MergeLoop(w, 1, NoTime)
             w0 == Log(w, "_schedule", 0, 0, 0)
             w1 == IF /\ closest_event.instruction # None
                      /\ current_time.instruction # None
                      /\ w0.coord.simulator
                   THEN ScheduleMaxInsts(w0, Val(closest_event.instruction))
                   ELSE w0
         IN  IF closest_event.cycle # None /\ current_time.cycle # None
             THEN Raise(w1, "NotImplementedError")
             ELSE IF closest_event.tick # None /\ current_time.tick # None
             THEN Raise(w1, "NotImplementedError")
             ELSE w1

-----------------------------------------------------------------------------
(* PeriodicROIManager *)

Phases == {"NO_WORK", "FF_INIT", "FF_WORK", "WARMUP", "ROI"}

\* InitialPhase without the wait for WORKBEGIN
InitialPhaseNoWait(start_on_workbegin, init_ff_interval) ==
    IF init_ff_interval > 0 THEN "FF_INIT" ELSE "FF_WORK"

\* PeriodicROIManager._get_initial_phase_and_event: the phase
InitialPhase(start_on_workbegin, init_ff_interval) ==
    IF start_on_workbegin THEN "NO_WORK"
    ELSE IF init_ff_interval > 0 THEN "FF_INIT"
    ELSE "FF_WORK"

\* PeriodicROIManager._get_initial_phase_and_event: the event
InitialEvent(start_on_workbegin, init_ff_interval, ff_interval) ==
    IF start_on_workbegin THEN NoTime
    ELSE IF init_ff_interval > 0 THEN EventTime(Some(init_ff_interval), None, None)
    ELSE EventTime(Some(ff_interval), None, None)

\* CapReached with `>` for `>=`
CapReachedLate(num_rois, completed_rois) ==
    /\ num_rois # None
    /\ Val(num_rois) # 0
    /\ completed_rois > Val(num_rois)

\* `self._num_rois and self._completed_rois >= self._num_rois`: None and 0 are falsy
CapReached(num_rois, completed_rois) ==
    /\ num_rois # None
    /\ Val(num_rois) # 0
    /\ completed_rois >= Val(num_rois)

\* ContinueAfterCap with the flag ignored
ContinueAfterCapNever(m) == FALSE

\* `if self._continue_sim` once the cap is reached: keep going instead of stopping
ContinueAfterCap(m) == m.continue_sim

\* the statements after the ROI branch's if/else: switch, enter FF_WORK, yield False
PeriodicRoiTail(w, i) ==
    LET w1 == MgrSwitchProcessor(w, i)
        w2 == Assign(w1, i, "current_phase", "FF_WORK")
        w3 == Assign(w2, i, "pcMax", "top")
    IN  Yield(w3, i, "False")

\* PeriodicMaxInstsRoi with a count of two for the ROI dumped
PeriodicMaxInstsRoiCountTwice(w, i) ==
    LET w1 == MgrDumpStats(w, i)
        w2 == Assign(w1, i, "completed_rois", w1.mgrs[i].completed_rois + 2)
        m  == w2.mgrs[i]
    IN  IF CapReached(m.num_rois, m.completed_rois)
        THEN IF ContinueAfterCap(m)
             THEN PeriodicRoiTail(w2, i)
             ELSE Yield(Assign(MgrResetStats(w2, i), i, "pcMax", "after_stop"), i, "True")
        ELSE PeriodicRoiTail(
                 MgrSetNextEvent(w2, i, EventTime(Some(m.ff_interval), None, None)), i)

\* PeriodicMaxInstsRoi with the processor switched before the dump
PeriodicMaxInstsRoiSwitchFirst(w, i) ==
    LET w0 == MgrSwitchProcessor(w, i)
        w1 == MgrDumpStats(w0, i)
        w2 == Assign(w1, i, "completed_rois", w1.mgrs[i].completed_rois + 1)
        m  == w2.mgrs[i]
        w3 == Assign(w2, i, "current_phase", "FF_WORK")
    IN  IF CapReached(m.num_rois, m.completed_rois)
        THEN IF ContinueAfterCap(m)
             THEN Yield(w3, i, "False")
             ELSE Yield(Assign(MgrResetStats(w2, i), i, "pcMax", "after_stop"), i, "True")
        ELSE Yield(MgrSetNextEvent(w3, i, EventTime(Some(m.ff_interval), None, None)),
                   i, "False")

\* _handle_max_insts in phase ROI
PeriodicMaxInstsRoi(w, i) ==
    LET w1 == MgrDumpStats(w, i)
        w2 == Assign(w1, i, "completed_rois", w1.mgrs[i].completed_rois + 1)
        m  == w2.mgrs[i]
    IN  IF CapReached(m.num_rois, m.completed_rois)
        THEN IF ContinueAfterCap(m)
             THEN PeriodicRoiTail(w2, i)
             ELSE \* reset_stats, then `yield True`: the generator stays suspended there
                  Yield(Assign(MgrResetStats(w2, i), i, "pcMax", "after_stop"), i, "True")
        ELSE PeriodicRoiTail(
                 MgrSetNextEvent(w2, i, EventTime(Some(m.ff_interval), None, None)), i)

\* _handle_max_insts in phase WARMUP
PeriodicMaxInstsWarmup(w, i) ==
    LET w1 == MgrResetStats(w, i)
        w2 == Assign(w1, i, "current_phase", "ROI")
        w3 == MgrSetNextEvent(w2, i, EventTime(Some(w.mgrs[i].roi_interval), None, None))
    IN  Yield(w3, i, "False")

\* _handle_max_insts in phase FF_WORK
PeriodicMaxInstsFfWork(w, i) ==
    LET w1 == MgrSwitchProcessor(w, i)
        w2 == Assign(w1, i, "current_phase", "WARMUP")
        w3 == MgrSetNextEvent(w2, i, EventTime(Some(w.mgrs[i].warmup_interval), None, None))
    IN  Yield(w3, i, "False")

\* _handle_max_insts in phase FF_INIT
PeriodicMaxInstsFfInit(w, i) ==
    LET w1 == Assign(w, i, "current_phase", "FF_WORK")
        w2 == MgrSetNextEvent(w1, i, EventTime(Some(w.mgrs[i].ff_interval), None, None))
    IN  Yield(w2, i, "False")

\* _handle_max_insts in phase NO_WORK
PeriodicMaxInstsNoWork(w, i) ==
    Yield(MgrSetNextEvent(w, i, NoTime), i, "False")

\* PeriodicROIManager._handle_max_insts: one next() of the generator.  It resumes
\* after the `yield True` it last stopped at, or at the top of the loop.
PeriodicHandleMaxInsts(w, i) ==
    IF w.mgrs[i].pcMax = "after_stop" THEN PeriodicRoiTail(w, i)
    ELSE CASE w.mgrs[i].current_phase = "ROI" -> PeriodicMaxInstsRoi(w, i)
           [] w.mgrs[i].current_phase = "WARMUP" -> PeriodicMaxInstsWarmup(w, i)
           [] w.mgrs[i].current_phase = "FF_WORK" -> PeriodicMaxInstsFfWork(w, i)
           [] w.mgrs[i].current_phase = "FF_INIT" -> PeriodicMaxInstsFfInit(w, i)
           [] OTHER -> PeriodicMaxInstsNoWork(w, i)

\* PeriodicROIManager._handle_workbegin
PeriodicHandleWorkbegin(w, i) ==
    LET m == w.mgrs[i]
    IN  IF m.init_ff_interval # 0
        THEN LET w1 == Assign(w, i, "current_phase", "FF_INIT")
             IN  IF m.next_event.instruction = None
                 THEN Raise(w1, "ValueError")
                 ELSE Yield(Assign(Assign(w1, i, "next_event",
                                       EventTime(Some(Val(m.next_event.instruction)
                                                      + m.init_ff_interval), None, None)),
                                   i, "set_at", w.sim.insts),
                            i, "False")
        ELSE LET w1 == Assign(w, i, "current_phase", "FF_WORK")
                 w2 == MgrSetNextEvent(w1, i, EventTime(Some(m.ff_interval), None, None))
             IN  Yield(w2, i, "False")

\* DumpIfRoi without the count of the ROI dumped
DumpUncounted(w, i) ==
    IF w.mgrs[i].current_phase = "ROI" THEN MgrDumpStats(w, i) ELSE w

\* DumpIfRoi without the test of the phase
DumpAlways(w, i) ==
    LET w1 == MgrDumpStats(w, i)
    IN  Assign(w1, i, "completed_rois", w1.mgrs[i].completed_rois + 1)

\* the dump the WORKEND and EXIT handlers make when the phase is ROI
DumpIfRoi(w, i) ==
    IF w.mgrs[i].current_phase = "ROI"
    THEN LET w1 == MgrDumpStats(w, i)
         IN  Assign(w1, i, "completed_rois", w1.mgrs[i].completed_rois + 1)
    ELSE w

\* PeriodicROIManager._handle_workend
PeriodicHandleWorkend(w, i) ==
    LET w1 == DumpIfRoi(w, i)
        w2 == MgrResetStats(w1, i)
        w3 == Assign(w2, i, "current_phase", "NO_WORK")
    IN  Yield(w3, i, "False")

\* PeriodicROIManager._handle_exit
PeriodicHandleExit(w, i) ==
    LET w1 == DumpIfRoi(w, i)
        w2 == MgrResetStats(w1, i)
    IN  Yield(w2, i, "True")

\* PeriodicROIManager.get_event_handlers: the kinds it declares
PeriodicKinds == {"MAX_INSTS", "WORKBEGIN", "WORKEND", "EXIT"}

-----------------------------------------------------------------------------
(* SimpleROIManager *)

\* SimpleHandleWorkbegin with the reset before the switch
SimpleHandleWorkbeginResetFirst(w, i) ==
    Yield(MgrSwitchProcessor(MgrResetStats(w, i), i), i, "False")

\* SimpleROIManager._handle_workbegin
SimpleHandleWorkbegin(w, i) ==
    Yield(MgrResetStats(MgrSwitchProcessor(w, i), i), i, "False")

\* SimpleHandleWorkend with the switch before the dump and the reset
SimpleHandleWorkendSwitchFirst(w, i) ==
    Yield(MgrResetStats(MgrDumpStats(MgrSwitchProcessor(w, i), i), i), i, "False")

\* SimpleROIManager._handle_workend
SimpleHandleWorkend(w, i) ==
    Yield(MgrSwitchProcessor(MgrResetStats(MgrDumpStats(w, i), i), i), i, "False")

\* SimpleROIManager._handle_exit: a generator with one yield; a next() after it
\* finds the generator exhausted
SimpleHandleExit(w, i) ==
    IF w.mgrs[i].pcExit = "done" THEN Raise(w, "StopIteration")
    ELSE Yield(Assign(MgrDumpStats(w, i), i, "pcExit", "done"), i, "True")

\* SimpleROIManager.get_event_handlers: the kinds it declares
SimpleKinds == {"WORKBEGIN", "WORKEND", "EXIT"}

-----------------------------------------------------------------------------
(* Any other EventManager subclass: it declares the kinds it likes, and a  *)
(* handler of it sets a next event and yields True, False or None.         *)

Verdicts == {"True", "False", "None"}

\* what one handler invocation of such a manager does: c.ret and c.next_event
OtherHandle(w, i, c) ==
    Yield(MgrSetNextEvent(w, i, c.next_event), i, c.ret)

-----------------------------------------------------------------------------
(* One next() on manager i's generator for an exit event of kind k *)

InvokeHandler(w, i, k, c) ==
    LET w0 == Log(w, "invoke", i, 0, 0)
        kind == w.mgrs[i].kind
    IN  CASE kind = "Periodic" /\ k = "MAX_INSTS" -> PeriodicHandleMaxInsts(w0, i)
          [] kind = "Periodic" /\ k = "WORKBEGIN" -> PeriodicHandleWorkbegin(w0, i)
          [] kind = "Periodic" /\ k = "WORKEND" -> PeriodicHandleWorkend(w0, i)
          [] kind = "Periodic" /\ k = "EXIT" -> PeriodicHandleExit(w0, i)
          [] kind = "Simple" /\ k = "WORKBEGIN" -> SimpleHandleWorkbegin(w0, i)
          [] kind = "Simple" /\ k = "WORKEND" -> SimpleHandleWorkend(w0, i)
          [] kind = "Simple" /\ k = "EXIT" -> SimpleHandleExit(w0, i)
          [] OTHER -> OtherHandle(w0, i, c)

-----------------------------------------------------------------------------
(* EventCoordinator: registration and dispatch *)

\* manager.get_event_handlers(): the kinds the manager's table has a handler for
MgrEventHandlers(m) ==
    CASE m.kind = "Periodic" -> PeriodicKinds
      [] m.kind = "Simple" -> SimpleKinds
      [] OTHER -> m.kinds

\* the loop of EventCoordinator.register over the managers, from manager idx on
RECURSIVE RegisterLoop(_, _)
RegisterLoop(w, idx) ==
    IF idx > Len(w.mgrs) THEN w
    ELSE LET w1 == MgrRegister(w, idx)
             w2 == [w1 EXCEPT !.coord.handlers =
                                  Append(@, MgrEventHandlers(w1.mgrs[idx]))]
         IN  RegisterLoop(w2, idx + 1)

\* EventCoordinator.register
CoordRegister(w) ==
    Schedule(RegisterLoop([w EXCEPT !.coord.simulator = TRUE], 1))

\* IsDue without the comparison of the event time with the current time
IsDueUntimed(event_handlers, event_time, curr_time) ==
    /\ "MAX_INSTS" \in event_handlers
    /\ event_time.instruction # None
    /\ curr_time.instruction # None

\* the test EventCoordinator._handle_max_insts makes before it calls a handler
IsDue(event_handlers, event_time, curr_time) ==
    /\ "MAX_INSTS" \in event_handlers
    /\ event_time.instruction # None
    /\ curr_time.instruction # None
    /\ Val(event_time.instruction) <= Val(curr_time.instruction)

\* `res | (manager_res or False)`
OrMaxInsts(res, manager_res) == res \/ (manager_res = "True")

\* OrUnscheduled with None counted as False, as OrMaxInsts counts it
OrUnscheduledNoneIsFalse(res, manager_res) == res \/ (manager_res = "True")

\* `res | (True if manager_res is None else manager_res)`
OrUnscheduled(res, manager_res) == res \/ (manager_res = "None") \/ (manager_res = "True")

\* MaxInstsLoop leaving the loop after the first handler it has called
RECURSIVE MaxInstsLoopFirstDue(_, _, _, _)
MaxInstsLoopFirstDue(w, idx, curr_time, ch) ==
    IF idx > Len(w.mgrs) \/ ~Ok(w) THEN w
    ELSE IF IsDue(w.coord.handlers[idx], MgrGetNextEvent(w, idx), curr_time)
         THEN LET r == InvokeHandler(w, idx, "MAX_INSTS", ch[idx])
              IN  IF Ok(r) THEN [r EXCEPT !.res = OrMaxInsts(@, r.ret)] ELSE r
         ELSE MaxInstsLoopFirstDue(w, idx + 1, curr_time, ch)

\* the manager loop of EventCoordinator._handle_max_insts, from manager idx on
RECURSIVE MaxInstsLoop(_, _, _, _)
MaxInstsLoop(w, idx, curr_time, ch) ==
    IF idx > Len(w.mgrs) \/ ~Ok(w) THEN w
    ELSE LET event_time == MgrGetNextEvent(w, idx)
             event_handlers == w.coord.handlers[idx]
             w1 == IF IsDue(event_handlers, event_time, curr_time)
                   THEN LET r == InvokeHandler(w, idx, "MAX_INSTS", ch[idx])
                        IN  IF Ok(r) THEN [r EXCEPT !.res = OrMaxInsts(@, r.ret)] ELSE r
                   ELSE w
         IN  MaxInstsLoop(w1, idx + 1, curr_time, ch)

\* EventCoordinator._handle_max_insts: one next() of the coordinator's generator
CoordHandleMaxInsts(w, ch) ==
    LET curr_time == CoordGetCurrentTime(w)
        w1 == MaxInstsLoop([w EXCEPT !.res = FALSE], 1, curr_time, ch)
        w2 == Schedule(w1)
    IN  IF Ok(w2) THEN Log(w2, "coord.yield", 0, IF w2.res THEN 1 ELSE 0, 0) ELSE w2

\* the manager loop of EventCoordinator._handle_unscheduled, from manager idx on
RECURSIVE UnscheduledLoop(_, _, _, _)
UnscheduledLoop(w, idx, event_type, ch) ==
    IF idx > Len(w.mgrs) \/ ~Ok(w) THEN w
    ELSE LET event_handlers == w.coord.handlers[idx]
             w1 == IF event_type \in event_handlers
                   THEN LET r == InvokeHandler(w, idx, event_type, ch[idx])
                        IN  IF Ok(r) THEN [r EXCEPT !.res = OrUnscheduled(@, r.ret)] ELSE r
                   ELSE w
         IN  UnscheduledLoop(w1, idx + 1, event_type, ch)

\* EventCoordinator._handle_unscheduled: one next() of the coordinator's generator
CoordHandleUnscheduled(w, event_type, ch) ==
    LET w1 == UnscheduledLoop([w EXCEPT !.res = FALSE], 1, event_type, ch)
        w2 == Schedule(w1)
    IN  IF Ok(w2) THEN Log(w2, "coord.yield", 0, IF w2.res THEN 1 ELSE 0, 0) ELSE w2

\* EventCoordinator.get_event_handlers: the generator the engine calls for a kind
CoordHandle(w, k, ch) ==
    IF k = "MAX_INSTS" THEN CoordHandleMaxInsts(w, ch)
    ELSE CoordHandleUnscheduled(w, k, ch)

-----------------------------------------------------------------------------
(* The state as one record, and back *)

World == [mgrs |-> mgrs, coord |-> coord, sim |-> sim, err |-> "none",
          log |-> <<>>, ret |-> "None", res |-> FALSE]

\* the variables after an operation of kind k that ended in w
Commit(w, k, curr) ==
    /\ mgrs' = w.mgrs
    /\ coord' = w.coord
    /\ sim' = w.sim
    /\ err' = w.err
    /\ last' = [kind |-> k, log |-> w.log, res |-> w.res, curr |-> curr]

-----------------------------------------------------------------------------
(* Managers as constructed *)

\* the fields every manager record has (EventManager.__init__), with the
\* calls it has made counted and the instruction count at which its next
\* event was last set (set_at)
BaseMgr(kind, kinds, next_event) ==
    [kind |-> kind, kinds |-> kinds, coordinator |-> FALSE, next_event |-> next_event,
     ff_interval |-> 0, warmup_interval |-> 0, roi_interval |-> 0,
     init_ff_interval |-> 0, num_rois |-> None, continue_sim |-> FALSE,
     start_on_workbegin |-> FALSE, completed_rois |-> 0, current_phase |-> "NONE",
     pcMax |-> "top", pcExit |-> "start", nDump |-> 0, nReset |-> 0, nSwitch |-> 0,
     set_at |-> 0]

\* PeriodicROIManager.__init__
PeriodicMgr(ff, wu, roi, iff, n, cont, sow) ==
    [BaseMgr("Periodic", PeriodicKinds, InitialEvent(sow, iff, ff)) EXCEPT
        !.ff_interval = ff, !.warmup_interval = wu, !.roi_interval = roi,
        !.init_ff_interval = iff, !.num_rois = n, !.continue_sim = cont,
        !.start_on_workbegin = sow, !.current_phase = InitialPhase(sow, iff)]

\* `int(interval * 1_000_000)`: instructions per unit of a configured interval
InstructionsPerUnit == 1000000

\* get_simarglib_interval: the value of a parsed interval is a float (Some(n),
\* n an integer number of units) or something that is no float (None): the
\* exception it raises, or "none"
SimarglibIntervalError(interval) ==
    IF interval = None THEN "ValueError"
    ELSE IF Val(interval) < 0 THEN "ValueError"
    ELSE "none"

\* get_simarglib_interval: the interval it returns when it raises nothing
SimarglibInterval(interval) == Val(interval) * InstructionsPerUnit

\* `x if x is not None else get_simarglib_interval(key)`: the exception
IntervalArgError(arg, parsed) ==
    IF arg # None THEN "none" ELSE SimarglibIntervalError(parsed)

\* `x if x is not None else get_simarglib_interval(key)`: the value
IntervalArg(arg, parsed) ==
    IF arg # None THEN Val(arg) ELSE SimarglibInterval(parsed)

\* the interval names in the order __init__ reads them
IntervalKeys == <<"ff_interval", "warmup_interval", "roi_interval", "init_ff_interval">>

\* PeriodicROIManager.__init__: the exception of the first interval that has
\* one, or "none"
RECURSIVE ConstructError(_, _, _)
ConstructError(args, parsed, k) ==
    IF k > Len(IntervalKeys) THEN "none"
    ELSE IF IntervalArgError(args[IntervalKeys[k]], parsed[IntervalKeys[k]]) # "none"
    THEN IntervalArgError(args[IntervalKeys[k]], parsed[IntervalKeys[k]])
    ELSE ConstructError(args, parsed, k + 1)

\* PeriodicROIManager(args) with the parsed configuration `parsed`: the
\* manager, when __init__ raises nothing
ConstructPeriodic(args, parsed) ==
    PeriodicMgr(IntervalArg(args.ff_interval, parsed.ff_interval),
                IntervalArg(args.warmup_interval, parsed.warmup_interval),
                IntervalArg(args.roi_interval, parsed.roi_interval),
                IntervalArg(args.init_ff_interval, parsed.init_ff_interval),
                None, FALSE, args.start_on_workbegin)

\* SimpleROIManager.__init__
SimpleMgr == BaseMgr("Simple", SimpleKinds, NoTime)

\* another EventManager subclass, declaring `kinds`
OtherMgr(kinds, next_event) == BaseMgr("Other", kinds, next_event)

\* EventCoordinator.__init__
InitCoord == [simulator |-> FALSE, handlers |-> <<>>,
              total_instructions |-> 0, total_cycles |-> 0]

\* the simulator as constructed: nothing run, the fast-forward core active
InitSim(switch) == [instantiated |-> FALSE, simInsts |-> 0, insts |-> 0, stops |-> {},
                    proc |-> "ff", switch |-> switch, exit |-> "none"]

InitLast == [kind |-> "init", log |-> <<>>, res |-> FALSE, curr |-> 0]

-----------------------------------------------------------------------------
(* Operations: the script's calls, the engine's run loop, the dispatch *)

\* the engine is inside Simulator.run(), between two exit events
Running ==
    /\ err = "none"
    /\ coord.simulator
    /\ sim.instantiated
    /\ ~stopped
    /\ sim.exit = "none"

Note(k) == [kind |-> k, log |-> <<>>, res |-> FALSE, curr |-> 0]

\* coordinator.register(simulator), once
Register ==
    /\ err = "none"
    /\ ~coord.simulator
    /\ \E w \in {CoordRegister(World)} : Commit(w, "register", 0)
    /\ UNCHANGED <<nEvents, stopped, pts>>

\* Simulator.run() instantiates the simulator before it runs it
Instantiate ==
    /\ err = "none"
    /\ ~sim.instantiated
    /\ sim' = [sim EXCEPT !.instantiated = TRUE]
    /\ last' = Note("instantiate")
    /\ UNCHANGED <<mgrs, coord, err, nEvents, stopped, pts>>

\* the engine runs up to the earliest stop requested and raises MAX_INSTS
EngineMaxInsts(bound) ==
    /\ Running
    /\ nEvents < bound
    /\ sim.stops # {}
    /\ LET s == Min(sim.stops)
       IN  sim' = [sim EXCEPT !.insts = s, !.simInsts = @ + (s - sim.insts),
                              !.stops = @ \ {s}, !.exit = "MAX_INSTS"]
    /\ last' = Note("run")
    /\ UNCHANGED <<mgrs, coord, err, nEvents, stopped, pts>>

\* the engine runs d instructions, short of any stop requested, and the workload
\* raises an exit event of kind k
EngineUnscheduled(k, d, bound) ==
    /\ Running
    /\ nEvents < bound
    /\ sim.stops # {} => sim.insts + d <= Min(sim.stops)
    /\ sim' = [sim EXCEPT !.insts = @ + d, !.simInsts = @ + d, !.exit = k]
    /\ last' = Note("run")
    /\ UNCHANGED <<mgrs, coord, err, nEvents, stopped, pts>>

\* the engine calls next() on the coordinator's generator for the exit event raised
Dispatch(ch) ==
    /\ err = "none"
    /\ sim.exit # "none"
    /\ \E w \in {CoordHandle([World EXCEPT !.sim.exit = "none"], sim.exit, ch)} :
           /\ Commit(w, sim.exit, Val(CoordGetCurrentTime(World).instruction))
           /\ stopped' = (Ok(w) /\ w.res)
    /\ nEvents' = nEvents + 1
    /\ UNCHANGED pts

\* the script calls Simulator.run() again after a stop verdict
Resume ==
    /\ err = "none"
    /\ stopped
    /\ stopped' = FALSE
    /\ last' = Note("resume")
    /\ UNCHANGED <<mgrs, coord, sim, err, nEvents, pts>>

\* the script may call the statistics operations between runs; the simulator
\* serves statistics once it is instantiated
StatsCallable ==
    /\ err = "none"
    /\ sim.exit = "none"
    /\ ~coord.simulator \/ sim.instantiated

\* the EventTime a get_current_time() of manager m (0: the coordinator)
\* returned, as two log entries: instruction and cycle, then tick
TimeLog(m, t) ==
    <<Entry("get_current_time", m, Val(t.instruction), Val(t.cycle)),
      Entry("get_current_time.tick", m, Val(t.tick), 0)>>

\* coordinator.reset_stats() called by the script
CallResetStats ==
    /\ StatsCallable
    /\ \E w \in {CoordResetStats(World)} : Commit(w, "reset_stats", 0)
    /\ UNCHANGED <<nEvents, stopped, pts>>

\* coordinator.dump_stats() called by the script
CallDumpStats ==
    /\ StatsCallable
    /\ \E w \in {CoordDumpStats(World)} : Commit(w, "dump_stats", 0)
    /\ UNCHANGED <<nEvents, stopped, pts>>

\* the script constructs a PeriodicROIManager
Construct(args, parsed) ==
    /\ err = "none"
    /\ mgrs = <<>>
    /\ IF ConstructError(args, parsed, 1) # "none"
       THEN mgrs' = mgrs /\ err' = ConstructError(args, parsed, 1)
       ELSE mgrs' = <<ConstructPeriodic(args, parsed)>> /\ err' = err
    /\ last' = Note("construct")
    /\ UNCHANGED <<coord, sim, nEvents, stopped, pts>>

\* manager.register(coordinator) called on manager i directly
CallMgrRegister(i) ==
    /\ err = "none"
    /\ sim.exit = "none"
    /\ ~mgrs[i].coordinator
    /\ \E w \in {MgrRegister(World, i)} : Commit(w, "manager.register", 0)
    /\ UNCHANGED <<nEvents, stopped, pts>>

\* manager.switch_processor() called on manager i directly, in whatever state
\* the manager, the coordinator and the simulator are
CallSwitchProcessor(i, bound) ==
    /\ err = "none"
    /\ sim.exit = "none"
    /\ mgrs[i].nSwitch < bound
    /\ \E w \in {MgrSwitchProcessor(World, i)} : Commit(w, "switch_processor", 0)
    /\ UNCHANGED <<nEvents, stopped, pts>>

\* coordinator.get_current_time() called by the script
CallGetCurrentTime ==
    /\ err = "none"
    /\ sim.exit = "none"
    /\ last' = [Note("get_current_time") EXCEPT
                   !.curr = Val(CoordGetCurrentTime(World).instruction),
                   !.log = TimeLog(0, CoordGetCurrentTime(World))]
    /\ UNCHANGED <<mgrs, coord, sim, err, nEvents, stopped, pts>>

\* manager.get_current_time() called on manager i directly
CallMgrGetCurrentTime(i) ==
    /\ err = "none"
    /\ sim.exit = "none"
    /\ last' = [Note("manager.get_current_time") EXCEPT
                   !.curr = Val(MgrGetCurrentTime(World, i).instruction),
                   !.log = TimeLog(i, MgrGetCurrentTime(World, i))]
    /\ UNCHANGED <<mgrs, coord, sim, err, nEvents, stopped, pts>>

\* manager.reset_stats() called on manager i directly
CallMgrResetStats(i, bound) ==
    /\ StatsCallable
    /\ mgrs[i].nReset < bound
    /\ \E w \in {MgrResetStats(World, i)} : Commit(w, "manager.reset_stats", 0)
    /\ UNCHANGED <<nEvents, stopped, pts>>

\* manager.dump_stats() called on manager i directly
CallMgrDumpStats(i, bound) ==
    /\ StatsCallable
    /\ mgrs[i].nDump < bound
    /\ \E w \in {MgrDumpStats(World, i)} : Commit(w, "manager.dump_stats", 0)
    /\ UNCHANGED <<nEvents, stopped, pts>>

-----------------------------------------------------------------------------
(* What the handlers of the other managers may choose *)

NoChoice == [ret |-> "False", next_event |-> NoTime]

\* one choice per manager, from manager idx on; only the other managers that
\* declare the exit event raised have any
RECURSIVE ChoiceSeqs(_, _)
ChoiceSeqs(C, idx) ==
    IF idx > Len(mgrs) THEN {<<>>}
    ELSE LET mine == IF mgrs[idx].kind = "Other" /\ sim.exit \in mgrs[idx].kinds
                     THEN C ELSE {NoChoice}
         IN  {<<c>> \o rest : c \in mine, rest \in ChoiceSeqs(C, idx + 1)}

ChoiceFns(C) == ChoiceSeqs(C, 1)

-----------------------------------------------------------------------------
(* Specification SpecSeq: one PeriodicROIManager that starts at once, and  *)
(* an engine that raises MAX_INSTS only.                                   *)

Intervals == 1..MaxInterval
RoiCaps == {None} \cup {Some(n) : n \in 0..MaxRois}

InitCommon ==
    /\ coord = InitCoord
    /\ sim = InitSim("callable")
    /\ err = "none"
    /\ last = InitLast
    /\ nEvents = 0
    /\ stopped = FALSE
    /\ pts = <<>>

InitSeq ==
    /\ mgrs \in {<<PeriodicMgr(ff, wu, roi, iff, n, cont, FALSE)>> :
                    ff \in Intervals, wu \in Intervals, roi \in Intervals,
                    iff \in 0..MaxInterval, n \in RoiCaps, cont \in BOOLEAN}
    /\ InitCommon

NextSeq ==
    \/ Register
    \/ Instantiate
    \/ EngineMaxInsts(MaxSeqEvents)
    \/ \E ch \in ChoiceFns({}) : Dispatch(ch)

SpecSeq == InitSeq /\ [][NextSeq]_vars

-----------------------------------------------------------------------------
(* Specification SpecPeriodic: one PeriodicROIManager under every kind of  *)
(* exit event, with runs resumed after a stop verdict.                     *)

\* the interval triples (ff, warmup, roi) of this specification: every
\* fast-forward and warm-up interval, with an ROI interval that differs
\* from the warm-up interval wherever the bound allows it
PeriodicIntervals ==
    {<<ff, wu, MaxInterval + 1 - wu>> : ff \in Intervals, wu \in Intervals}

InitPeriodic ==
    /\ mgrs \in {<<PeriodicMgr(t[1], t[2], t[3], iff, n, cont, sow)>> :
                    t \in PeriodicIntervals,
                    iff \in 0..MaxInterval, n \in RoiCaps, cont \in BOOLEAN,
                    sow \in BOOLEAN}
    /\ InitCommon

\* CHECKPOINT stands for the two kinds no PeriodicROIManager declares
PeriodicEvents == {"CHECKPOINT", "WORKBEGIN", "WORKEND", "EXIT"}

NextPeriodic ==
    \/ Register
    \/ Instantiate
    \/ EngineMaxInsts(MaxEvents)
    \/ \E k \in PeriodicEvents, d \in 0..MaxStep : EngineUnscheduled(k, d, MaxEvents)
    \/ \E ch \in ChoiceFns({}) : Dispatch(ch)
    \/ Resume

SpecPeriodic == InitPeriodic /\ [][NextPeriodic]_vars

-----------------------------------------------------------------------------
(* Specification SpecLive: one PeriodicROIManager, capped at one ROI or    *)
(* uncapped, under MAX_INSTS, WORKBEGIN and WORKEND, with runs resumed     *)
(* after a stop verdict and an engine that keeps running: Simulator.run()  *)
(* runs on to the stop it was asked for, and calls the coordinator's       *)
(* generator for every exit event it raises.                               *)

InitLive ==
    /\ mgrs \in {<<PeriodicMgr(t[1], t[2], t[3], iff, n, FALSE, sow)>> :
                    t \in PeriodicIntervals, iff \in {0, MaxInterval},
                    n \in {None, Some(1)}, sow \in BOOLEAN}
    /\ InitCommon

LiveEvents == {"WORKBEGIN", "WORKEND"}

NextLive ==
    \/ Register
    \/ Instantiate
    \/ EngineMaxInsts(MaxLiveEvents)
    \/ \E k \in LiveEvents, d \in 0..MaxStep : EngineUnscheduled(k, d, MaxLiveEvents)
    \/ \E ch \in ChoiceFns({}) : Dispatch(ch)
    \/ Resume

\* the coordinator's generator answers the exit event raised: the step a
\* Dispatch makes, and no other action of NextLive
Delivered == err = "none" /\ sim.exit # "none" /\ nEvents' = nEvents + 1

SpecLive ==
    /\ InitLive
    /\ [][NextLive]_vars
    /\ WF_vars(EngineMaxInsts(MaxLiveEvents))
    /\ WF_nEvents(Delivered)

-----------------------------------------------------------------------------
(* Specification SpecCap: one PeriodicROIManager with a cap of one ROI or  *)
(* more and continue_sim false, under MAX_INSTS, WORKBEGIN, WORKEND and    *)
(* EXIT, in one run: nothing follows a stop verdict.                       *)

InitCap ==
    /\ mgrs \in {<<PeriodicMgr(ff, 1, 1, 0, Some(n), FALSE, FALSE)>> :
                    ff \in Intervals, n \in 1..MaxRois}
    /\ InitCommon

CapEvents == {"WORKBEGIN", "WORKEND", "EXIT"}

NextCap ==
    \/ Register
    \/ Instantiate
    \/ EngineMaxInsts(MaxCapEvents)
    \/ \E k \in CapEvents, d \in 0..MaxStep : EngineUnscheduled(k, d, MaxCapEvents)
    \/ \E ch \in ChoiceFns({}) : Dispatch(ch)

SpecCap == InitCap /\ [][NextCap]_vars

-----------------------------------------------------------------------------
(* Specification SpecWindow: one PeriodicROIManager that starts at once,   *)
(* under MAX_INSTS and the kinds it declares no handler for, in one run.   *)

InitWindow ==
    /\ mgrs \in {<<PeriodicMgr(t[1], t[2], t[3], iff, n, cont, FALSE)>> :
                    t \in PeriodicIntervals, iff \in 0..MaxInterval,
                    n \in RoiCaps, cont \in BOOLEAN}
    /\ InitCommon

WindowEvents == {"CHECKPOINT", "SIMPOINT_BEGIN"}

NextWindow ==
    \/ Register
    \/ Instantiate
    \/ EngineMaxInsts(MaxEvents)
    \/ \E k \in WindowEvents, d \in 0..MaxStep : EngineUnscheduled(k, d, MaxEvents)
    \/ \E ch \in ChoiceFns({}) : Dispatch(ch)

SpecWindow == InitWindow /\ [][NextWindow]_vars

-----------------------------------------------------------------------------
(* Specification SpecStarve: two managers that declare MAX_INSTS and have  *)
(* a wakeup, under MAX_INSTS and, early in the run, CHECKPOINT; the engine *)
(* stops at every stop requested and delivers every exit event.            *)

MaxStarveEvents == 6
MaxEarly == 2

\* what a handler of the other managers may choose: go on, with a wakeup
StarveChoices ==
    {[ret |-> "False", next_event |-> EventTime(Some(n), None, None)] : n \in Intervals}

StarvePool ==
    {PeriodicMgr(MaxInterval, 1, 1, 0, None, FALSE, FALSE),
     PeriodicMgr(1, MaxInterval, 1, 0, Some(1), FALSE, FALSE)}
        \cup {OtherMgr({"MAX_INSTS", "CHECKPOINT"}, EventTime(Some(n), None, None)) :
                 n \in Intervals}

InitStarve ==
    /\ mgrs \in {<<a, b>> : a \in StarvePool, b \in StarvePool}
    /\ InitCommon

NextStarve ==
    \/ Register
    \/ Instantiate
    \/ EngineMaxInsts(MaxStarveEvents)
    \/ \E d \in 0..MaxStep : EngineUnscheduled("CHECKPOINT", d, MaxEarly)
    \/ \E ch \in ChoiceFns(StarveChoices) : Dispatch(ch)

SpecStarve ==
    InitStarve /\ [][NextStarve]_vars
        /\ WF_vars(Register) /\ WF_vars(Instantiate)
        /\ WF_vars(EngineMaxInsts(MaxStarveEvents)) /\ WF_nEvents(Delivered)

-----------------------------------------------------------------------------
(* Specification SpecStart: a PeriodicROIManager of every initial phase,   *)
(* registered before a manager that has the engine raise MAX_INSTS.        *)

\* the manager that keeps MAX_INSTS coming
Ticker == OtherMgr({"MAX_INSTS"}, EventTime(Some(1), None, None))

\* what the ticker's handler may choose: go on, or set no further event
StartChoices ==
    {[ret |-> "False", next_event |-> EventTime(i, None, None)] : i \in {None, Some(1)}}

InitStart ==
    /\ mgrs \in {<<PeriodicMgr(ff, 1, 1, iff, None, FALSE, sow), Ticker>> :
                    ff \in Intervals, iff \in 0..MaxInterval, sow \in BOOLEAN}
    /\ InitCommon

NextStart ==
    \/ Register
    \/ Instantiate
    \/ EngineMaxInsts(MaxEvents)
    \/ \E k \in PeriodicEvents, d \in 0..MaxStep : EngineUnscheduled(k, d, MaxEvents)
    \/ \E ch \in ChoiceFns(StartChoices) : Dispatch(ch)

SpecStart == InitStart /\ [][NextStart]_vars

-----------------------------------------------------------------------------
(* Specification SpecSwitch: switch_processor called directly and by the   *)
(* handlers, on processors with and without a switch method, before and    *)
(* after the manager, the coordinator and the simulator are wired.         *)

\* `processor.switch`: a method, an attribute that is no method, no attribute
SwitchKinds == {"callable", "notcallable", "absent"}

InitSwitch ==
    /\ mgrs \in {<<SimpleMgr>>, <<PeriodicMgr(1, 1, 1, 0, None, FALSE, FALSE)>>}
    /\ coord = InitCoord
    /\ sim \in {InitSim(s) : s \in SwitchKinds}
    /\ err = "none"
    /\ last = InitLast
    /\ nEvents = 0
    /\ stopped = FALSE
    /\ pts = <<>>

SwitchEvents == {"WORKBEGIN", "WORKEND"}

NextSwitch ==
    \/ Register
    \/ \E i \in 1..Len(mgrs) : CallMgrRegister(i)
    \/ Instantiate
    \/ \E i \in 1..Len(mgrs) : CallSwitchProcessor(i, MaxCalls)
    \/ EngineMaxInsts(MaxEvents)
    \/ \E k \in SwitchEvents, d \in 0..MaxStep : EngineUnscheduled(k, d, MaxEvents)
    \/ \E ch \in ChoiceFns({}) : Dispatch(ch)

SpecSwitch == InitSwitch /\ [][NextSwitch]_vars

-----------------------------------------------------------------------------
(* Specification SpecWiring: the statistics and time operations of a       *)
(* manager and of the coordinator, called by the script before and after   *)
(* the manager, the coordinator and the simulator are wired, and by the    *)
(* handlers during the run.                                                *)

InitWiring ==
    /\ mgrs \in {<<SimpleMgr>>, <<PeriodicMgr(1, 1, 1, 0, None, FALSE, FALSE)>>}
    /\ InitCommon

NextWiring ==
    \/ Register
    \/ \E i \in 1..Len(mgrs) : CallMgrRegister(i)
    \/ Instantiate
    \/ EngineMaxInsts(MaxEvents)
    \/ \E k \in SwitchEvents, d \in 0..MaxStep : EngineUnscheduled(k, d, MaxEvents)
    \/ \E ch \in ChoiceFns({}) : Dispatch(ch)
    \/ CallResetStats
    \/ CallDumpStats
    \/ CallGetCurrentTime
    \/ \E i \in 1..Len(mgrs) : CallMgrResetStats(i, MaxCalls)
    \/ \E i \in 1..Len(mgrs) : CallMgrDumpStats(i, MaxCalls)
    \/ \E i \in 1..Len(mgrs) : CallMgrGetCurrentTime(i)

SpecWiring == InitWiring /\ [][NextWiring]_vars

-----------------------------------------------------------------------------
(* Specification SpecConstruct: a PeriodicROIManager constructed from      *)
(* arguments and, for the arguments left out, from the parsed              *)
(* configuration.                                                          *)

\* an interval as an argument: left out, or an integer
ArgIntervals == {None} \cup {Some(n) : n \in -1..1}

\* an interval as parsed: a float (in units), or no float
ParsedIntervals == {None} \cup {Some(n) : n \in -1..1}

ConstructArgs ==
    [ff_interval : ArgIntervals, warmup_interval : ArgIntervals,
     roi_interval : ArgIntervals, init_ff_interval : ArgIntervals,
     start_on_workbegin : {FALSE}]

ParsedConfigs ==
    [ff_interval : ParsedIntervals, warmup_interval : ParsedIntervals,
     roi_interval : ParsedIntervals, init_ff_interval : ParsedIntervals]

InitConstruct ==
    /\ mgrs = <<>>
    /\ InitCommon

NextConstruct ==
    \E args \in ConstructArgs, parsed \in ParsedConfigs : Construct(args, parsed)

SpecConstruct == InitConstruct /\ [][NextConstruct]_vars

-----------------------------------------------------------------------------
(* Specification SpecCoord: a coordinator with one or several managers of  *)
(* any class, under every kind of exit event.                              *)

\* the kinds the other managers declare: between them, every kind
OtherKinds == {{"MAX_INSTS", "WORKBEGIN", "CHECKPOINT"},
               {"WORKBEGIN", "WORKEND", "EXIT", "SIMPOINT_BEGIN"}}

\* next events with the cycle or the tick axis defined
AxisTimes == {EventTime(None, Some(1), None), EventTime(Some(1), None, Some(1))}

\* the next events the other managers start with
OtherTimes ==
    {EventTime(i, None, None) : i \in {None} \cup {Some(n) : n \in 0..MaxInterval}}
        \cup AxisTimes

\* what a handler of the other managers may choose in this specification
CoordChoices ==
    {[ret |-> r, next_event |-> EventTime(i, None, None)] :
        r \in Verdicts, i \in {None} \cup {Some(n) : n \in 1..MaxInterval}}
        \cup {[ret |-> "False", next_event |-> t] : t \in AxisTimes}

CoordPool ==
    {PeriodicMgr(MaxInterval, 1, 1, 0, Some(1), FALSE, FALSE),
     PeriodicMgr(1, 1, 1, 1, Some(1), FALSE, TRUE),
     SimpleMgr}
        \cup {OtherMgr(k, t) : k \in OtherKinds, t \in OtherTimes}

\* the lists of 1..n managers drawn from pool
RECURSIVE MgrLists(_, _)
MgrLists(pool, n) ==
    IF n = 0 THEN {<<>>}
    ELSE LET shorter == MgrLists(pool, n - 1)
         IN  shorter \cup {Append(l, m) : l \in {x \in shorter : Len(x) = n - 1}, m \in pool}

InitCoordSpec ==
    /\ mgrs \in MgrLists(CoordPool, MaxMgrs) \ {<<>>}
    /\ InitCommon

NextCoord ==
    \/ Register
    \/ Instantiate
    \/ EngineMaxInsts(MaxCoordEvents)
    \/ \E k \in UnscheduledKinds, d \in 0..MaxStep : EngineUnscheduled(k, d, MaxCoordEvents)
    \/ \E ch \in ChoiceFns(CoordChoices) : Dispatch(ch)

SpecCoord == InitCoordSpec /\ [][NextCoord]_vars

-----------------------------------------------------------------------------
(* Specification SpecStats: the samplers of the repository, alone and      *)
(* together, with the script calling the statistics operations between     *)
(* the engine's events.                                                    *)

StatsPool ==
    {PeriodicMgr(ff, 1, 1, 0, n, FALSE, FALSE) : ff \in Intervals, n \in {None, Some(1)}}

InitStats ==
    /\ mgrs \in {<<p>> : p \in StatsPool} \cup {<<p, SimpleMgr>> : p \in StatsPool}
                   \cup {<<SimpleMgr>>}
    /\ InitCommon

StatsEvents == {"WORKBEGIN", "WORKEND", "EXIT"}

NextStats ==
    \/ Register
    \/ Instantiate
    \/ EngineMaxInsts(MaxEvents)
    \/ \E k \in StatsEvents, d \in 0..MaxStep : EngineUnscheduled(k, d, MaxEvents)
    \/ \E ch \in ChoiceFns({}) : Dispatch(ch)
    \/ Resume
    \/ CallResetStats
    \/ CallDumpStats
    \/ CallGetCurrentTime

SpecStats == InitStats /\ [][NextStats]_vars

-----------------------------------------------------------------------------
(* Specification SpecAdd: EventTime.add applied to EventTime objects.  An  *)
(* object is its index in pts; a new object takes the next index.          *)

Axes == {None} \cup {Some(n) : n \in 0..MaxAxis}
Points == {EventTime(i, c, t) : i \in Axes, c \in Axes, t \in Axes}

\* `a.add(b)` on the heap: the heap after it and the object returned
AddObjects(heap, a, b) ==
    [heap |-> Append(heap, add(heap[a], heap[b])), ret |-> Len(heap) + 1]

AddPoints(a, b) ==
    /\ Len(pts) < MaxPts
    /\ \E r \in {AddObjects(pts, a, b)} :
           /\ pts' = r.heap
           /\ last' = [Note("add") EXCEPT !.log = <<Entry("add", r.ret, a, b)>>]
    /\ UNCHANGED <<mgrs, coord, sim, err, nEvents, stopped>>

InitAdd ==
    /\ mgrs = <<>>
    /\ coord = InitCoord
    /\ sim = InitSim("callable")
    /\ err = "none"
    /\ last = InitLast
    /\ nEvents = 0
    /\ stopped = FALSE
    /\ pts \in {<<A, B>> : A \in Points, B \in Points}

NextAdd == \E a \in DOMAIN pts, b \in DOMAIN pts : AddPoints(a, b)

SpecAdd == InitAdd /\ [][NextAdd]_vars

-----------------------------------------------------------------------------
(* Reading the call log *)

\* the entries of log with operation op, in order
Calls(log, op) == SelectSeq(log, LAMBDA e : e.op = op)

\* how many entries of log are operation op of manager i
CallCount(log, op, i) == Len(SelectSeq(log, LAMBDA e : e.op = op /\ e.m = i))

\* the managers whose handlers were invoked, in the order of invocation
RECURSIVE InvokedFrom(_, _)
InvokedFrom(log, k) ==
    IF k > Len(log) THEN <<>>
    ELSE IF log[k].op = "invoke" THEN <<log[k].m>> \o InvokedFrom(log, k + 1)
    ELSE InvokedFrom(log, k + 1)

Invoked(log) == InvokedFrom(log, 1)

\* a handler yielded verdict op ("yield_True", "yield_False", "yield_None")
Yielded(log, op) == \E k \in DOMAIN log : log[k].op = op /\ log[k].m > 0

\* the managers of ms that declare kind k, in registration order
RECURSIVE DeclaringFrom(_, _, _)
DeclaringFrom(ms, k, idx) ==
    IF idx > Len(ms) THEN <<>>
    ELSE IF k \in MgrEventHandlers(ms[idx]) THEN <<idx>> \o DeclaringFrom(ms, k, idx + 1)
    ELSE DeclaringFrom(ms, k, idx + 1)

\* the instruction count get_current_time() reports in the current state
CurrentInstruction == Val(CoordGetCurrentTime(World).instruction)

-----------------------------------------------------------------------------
(* C1..C3: the PeriodicROIManager under MAX_INSTS alone (SpecSeq) *)

\* the phase after k MAX_INSTS events of a manager that starts in FF_INIT
PhaseAfter(k) ==
    IF k = 0 THEN "FF_INIT"
    ELSE <<"FF_WORK", "WARMUP", "ROI">>[((k - 1) % 3) + 1]

\* the interval configured for a phase
IntervalOf(m, phase) ==
    CASE phase = "FF_INIT" -> m.init_ff_interval
      [] phase = "FF_WORK" -> m.ff_interval
      [] phase = "WARMUP" -> m.warmup_interval
      [] phase = "ROI" -> m.roi_interval

\* the configuration C1 is about
C1_Config ==
    /\ Len(mgrs) = 1
    /\ mgrs[1].kind = "Periodic"
    /\ ~mgrs[1].start_on_workbegin
    /\ mgrs[1].init_ff_interval > 0
    /\ mgrs[1].num_rois # None
    /\ Val(mgrs[1].num_rois) >= 1
    /\ ~mgrs[1].continue_sim

\* C1: with start_on_workbegin=false, init_ff_interval>0, num_rois=N>=1 and
\* continue_sim=false, under MAX_INSTS events alone: after k <= 3N events the
\* phase is the k-th of FF_INIT, (FF_WORK, WARMUP, ROI) x N with the wakeup of
\* that phase's interval, every dispatch so far invoked the handler once and
\* returned stop=false, and (k-1) div 3 ROIs were dumped; event 3N+1 ends the
\* N-th ROI and returns stop=true, with N dumpStats and N+1 resetStats calls
\* made; no event follows it.
C1_PhaseSequence ==
    C1_Config =>
        LET m == mgrs[1]
            N == Val(m.num_rois)
            k == nEvents
        IN  /\ k <= 3 * N + 1
            /\ last.kind = "MAX_INSTS" => CallCount(last.log, "invoke", 1) = 1
            /\ k <= 3 * N =>
                  /\ m.current_phase = PhaseAfter(k)
                  /\ m.next_event = EventTime(Some(IntervalOf(m, PhaseAfter(k))), None, None)
                  /\ ~stopped
                  /\ last.kind = "MAX_INSTS" => ~last.res
                  /\ m.nDump = (IF k = 0 THEN 0 ELSE (k - 1) \div 3)
                  /\ m.nReset = k \div 3
            /\ k = 3 * N + 1 =>
                  /\ stopped
                  /\ last.kind = "MAX_INSTS" /\ last.res
                  /\ m.nDump = N
                  /\ m.nReset = N + 1
                  /\ m.completed_rois = N

\* the run of C1 with N = MaxRois has reached its stop verdict
C1_Witness ==
    /\ C1_Config
    /\ Val(mgrs[1].num_rois) = MaxRois
    /\ stopped
    /\ mgrs[1].nDump = MaxRois

\* the configuration C2 and C3 are about, with the cap reached
CapReachedContinuing ==
    /\ Len(mgrs) = 1
    /\ mgrs[1].kind = "Periodic"
    /\ mgrs[1].continue_sim
    /\ mgrs[1].num_rois # None
    /\ Val(mgrs[1].num_rois) >= 1
    /\ mgrs[1].completed_rois >= Val(mgrs[1].num_rois)

\* C2: with a finite num_rois cap and continue_sim=true, once the completed-ROI
\* count has reached the cap, no invocation of the MAX_INSTS handler returns
\* stop=true: after the dispatch that reaches the cap and after every later one,
\* the handler was invoked, yielded False, and the run goes on.
C2_NeverStopsAfterCap ==
    (CapReachedContinuing /\ last.kind = "MAX_INSTS") =>
        /\ CallCount(last.log, "invoke", 1) = 1
        /\ CallCount(last.log, "yield_False", 1) = 1
        /\ ~Yielded(last.log, "yield_True")
        /\ ~last.res
        /\ ~stopped

\* a MAX_INSTS dispatch later than the one that reached the cap
C2_Witness ==
    /\ CapReachedContinuing
    /\ last.kind = "MAX_INSTS"
    /\ mgrs[1].completed_rois > Val(mgrs[1].num_rois)
    /\ CallCount(last.log, "invoke", 1) = 1

\* C3: with a finite num_rois cap and continue_sim=true, after the ROI that
\* reaches the cap completes the manager is in FF_WORK after every later
\* MAX_INSTS dispatch, never in WARMUP or ROI again, and makes no further
\* dumpStats or resetStats call.
C3_StaysInFfWork ==
    (CapReachedContinuing /\ last.kind = "MAX_INSTS") =>
        /\ mgrs[1].current_phase = "FF_WORK"
        /\ mgrs[1].nDump = Val(mgrs[1].num_rois)
        /\ mgrs[1].nReset = Val(mgrs[1].num_rois)

-----------------------------------------------------------------------------
(* C4..C7: the coordinator's merge and dispatch (SpecCoord) *)

\* the instruction axes the managers' next events define
DefinedInstructions ==
    {Val(mgrs[i].next_event.instruction) :
        i \in {j \in 1..Len(mgrs) : mgrs[j].next_event.instruction # None}}

\* C4: whenever the coordinator has merged the schedule (at register, after a
\* dispatch), it asked the engine for exactly one stop, at the least instruction
\* axis any manager defines, and for none when no manager defines the axis.
C4_MergeIsMinimum ==
    Calls(last.log, "_schedule") # <<>> =>
        LET requests == Calls(last.log, "schedule_max_insts")
        IN  IF DefinedInstructions = {} THEN requests = <<>>
            ELSE /\ Len(requests) = 1
                 /\ requests[1].v = Min(DefinedInstructions)

\* a merge after a dispatch, over a manager with no instruction axis and a
\* manager with one, which is not zero
C4_Witness ==
    /\ last.kind \in Kinds
    /\ Len(mgrs) = 2
    /\ mgrs[1].next_event.instruction = None
    /\ mgrs[2].next_event.instruction # None
    /\ Calls(last.log, "schedule_max_insts") # <<>>
    /\ Calls(last.log, "schedule_max_insts")[1].v > 0

\* manager i is due in the state a MAX_INSTS dispatch starts from
DueNow(i) ==
    /\ "MAX_INSTS" \in MgrEventHandlers(mgrs[i])
    /\ mgrs[i].next_event.instruction # None
    /\ Val(mgrs[i].next_event.instruction) <= coord.total_instructions + sim.simInsts

\* C5: a MAX_INSTS dispatch invokes the MAX_INSTS handler of a manager once if
\* the manager declares MAX_INSTS and its next event's instruction axis is
\* defined and at most the coordinator's current instruction count, and not at
\* all otherwise; the verdict it returns is true iff an invoked handler
\* yielded True.
C5_MaxInstsGating ==
    [][(sim.exit = "MAX_INSTS" /\ nEvents' = nEvents + 1) =>
          /\ \A i \in 1..Len(mgrs) :
                 CallCount(last'.log, "invoke", i) = (IF DueNow(i) THEN 1 ELSE 0)
          /\ err' = "none" => (last'.res <=> Yielded(last'.log, "yield_True"))
          /\ err' = "none" => Len(Calls(last'.log, "coord.yield")) = 1
      ]_vars

\* a MAX_INSTS dispatch that passed over the first manager, which declares
\* MAX_INSTS and has an instruction wakeup, invoked the second one, and
\* returned stop
C5_Witness ==
    /\ last.kind = "MAX_INSTS"
    /\ err = "none"
    /\ Len(mgrs) = 2
    /\ "MAX_INSTS" \in MgrEventHandlers(mgrs[1])
    /\ mgrs[1].next_event.instruction # None
    /\ Invoked(last.log) = <<2>>
    /\ last.res

\* C6: every dispatch of an unscheduled kind invokes the handler of every
\* manager that declares the kind exactly once, in registration order, and no
\* handler of a manager that does not declare it.
C6_UnscheduledInvokesAll ==
    [][(sim.exit \in UnscheduledKinds /\ nEvents' = nEvents + 1) =>
          Invoked(last'.log) = DeclaringFrom(mgrs, sim.exit, 1)
      ]_vars

\* C7: the verdict an unscheduled dispatch returns is true iff an invoked
\* handler yielded True or yielded nothing (None); it is false when every
\* invoked handler yielded False and when no manager declares the kind.
C7_UnscheduledVerdict ==
    (last.kind \in UnscheduledKinds /\ err = "none") =>
        /\ last.res <=> (Yielded(last.log, "yield_True") \/ Yielded(last.log, "yield_None"))
        /\ stopped = last.res

\* an unscheduled dispatch that returned stop because a handler yielded None,
\* no handler having yielded True
C7_Witness ==
    /\ last.kind \in UnscheduledKinds
    /\ err = "none"
    /\ last.res
    /\ Yielded(last.log, "yield_None")
    /\ ~Yielded(last.log, "yield_True")

-----------------------------------------------------------------------------
(* C8, C9: the cumulative counters and the current time (SpecStats) *)

\* C8: total_instructions and total_cycles never decrease, whatever the
\* operation: reset_stats, dump_stats, get_current_time, register, a dispatch.
C8_CountersMonotone ==
    [][/\ coord'.total_instructions >= coord.total_instructions
       /\ coord'.total_cycles >= coord.total_cycles]_vars

\* instructions have been folded into the cumulative counter by two resets
\* of one dispatch
C8_Witness ==
    /\ coord.total_instructions > 0
    /\ Len(Calls(last.log, "coord.reset_stats")) >= 2

\* C9: with an instantiated engine, every reset_stats leaves the instruction
\* count of get_current_time() as it found it, and that count never decreases
\* as the engine runs and statistics are reset, several times in one dispatch
\* included.
C9_TimeContinuous ==
    [][/\ \A k \in DOMAIN last'.log :
              last'.log[k].op = "coord.reset_stats" => last'.log[k].u = last'.log[k].v
       /\ CurrentInstruction' >= CurrentInstruction]_vars

\* a dispatch reset the statistics twice after the engine had run, and the
\* live counter is back at zero
C9_Witness ==
    /\ sim.instantiated
    /\ last.kind \in Kinds
    /\ Len(Calls(last.log, "coord.reset_stats")) >= 2
    /\ Calls(last.log, "coord.reset_stats")[1].v > 0
    /\ sim.simInsts = 0
    /\ CurrentInstruction > 0

-----------------------------------------------------------------------------
(* C10: EventTime.add (SpecAdd) *)

AxisNames == {"instruction", "cycle", "tick"}

\* C10: add(A, B) returns a new object and changes no object there was; each
\* axis of the result is defined iff A and B both define it, and is then the
\* sum of the two.
C10_AddAxiswise ==
    [][last'.kind = "add" =>
          LET r == last'.log[1].m
              a == last'.log[1].v
              b == last'.log[1].u
          IN  /\ r \notin DOMAIN pts
              /\ r \in DOMAIN pts'
              /\ \A j \in DOMAIN pts : pts'[j] = pts[j]
              /\ \A X \in AxisNames :
                    /\ pts'[r][X] # None <=> (pts[a][X] # None /\ pts[b][X] # None)
                    /\ pts'[r][X] # None => Val(pts'[r][X]) = Val(pts[a][X]) + Val(pts[b][X])
      ]_vars

\* a sum with one axis defined, greater than either operand's, and another
\* undefined because one operand lacks it
C10_Witness ==
    /\ last.kind = "add"
    /\ pts[last.log[1].m].instruction = Some(MaxAxis + 1)
    /\ pts[last.log[1].m].cycle = None
    /\ pts[last.log[1].v].cycle # None

-----------------------------------------------------------------------------
(* C11: the axes _schedule does not implement (SpecCoord) *)

\* a manager's next event defines the cycle axis or the tick axis
AxisBeyondInstructions ==
    \E i \in 1..Len(mgrs) :
        mgrs[i].next_event.cycle # None \/ mgrs[i].next_event.tick # None

\* C11: whenever the coordinator merges the schedule (at register, after the
\* handlers of a dispatch) while a manager's next event defines the cycle or
\* the tick axis, the merge raises NotImplementedError and the operation does
\* not complete: no verdict is yielded and the run does not go on; a merge
\* over instruction axes alone raises nothing.
C11_UnimplementedAxisIsFatal ==
    Calls(last.log, "_schedule") # <<>> =>
        IF AxisBeyondInstructions
        THEN /\ err = "NotImplementedError"
             /\ Calls(last.log, "coord.yield") = <<>>
             /\ ~Running
        ELSE err = "none"

\* a dispatch whose handler set a next event with the tick axis defined, the
\* managers having defined instruction axes only until then
C11_Witness ==
    /\ last.kind \in Kinds
    /\ nEvents >= 2
    /\ Calls(last.log, "_schedule") # <<>>
    /\ \E i \in 1..Len(mgrs) : mgrs[i].next_event.tick # None
    /\ err = "NotImplementedError"

-----------------------------------------------------------------------------
(* C12..: the PeriodicROIManager under every kind of exit event (SpecPeriodic) *)

\* where in log manager i's first call of op is
FirstCall(log, op, i) == Min({k \in DOMAIN log : log[k].op = op /\ log[k].m = i})

\* the step is the dispatch of an exit event of kind k
Dispatching(k) == sim.exit = k /\ nEvents' = nEvents + 1

\* C12: a WORKEND dispatched while the phase is ROI makes the handler call
\* dumpStats once, add one to the completed-ROI count and then call resetStats,
\* however few instructions of the ROI interval have run; in any other phase
\* it calls no dumpStats and leaves the count as it was.
C12_WorkendMidRoi ==
    [][Dispatching("WORKEND") =>
          IF mgrs[1].current_phase = "ROI"
          THEN /\ CallCount(last'.log, "dumpStats", 1) = 1
               /\ mgrs'[1].completed_rois = mgrs[1].completed_rois + 1
               /\ CallCount(last'.log, "resetStats", 1) = 1
               /\ FirstCall(last'.log, "dumpStats", 1) < FirstCall(last'.log, "resetStats", 1)
          ELSE /\ CallCount(last'.log, "dumpStats", 1) = 0
               /\ mgrs'[1].completed_rois = mgrs[1].completed_rois
      ]_vars

\* a WORKEND that dumped an ROI of fewer instructions than roi_interval
C12_Witness ==
    /\ last.kind = "WORKEND"
    /\ CallCount(last.log, "dumpStats", 1) = 1
    /\ mgrs[1].completed_rois = 1
    /\ Calls(last.log, "m5.stats.dump") # <<>>
    /\ Calls(last.log, "m5.stats.dump")[1].v < mgrs[1].roi_interval

\* C13: after a WORKEND dispatch, whatever the phase was, the manager is in
\* NO_WORK with its next event cleared (no axis defined), the merge that
\* follows the handler asks the engine for no stop, and the handler yielded
\* False.
C13_WorkendClearsWakeup ==
    last.kind = "WORKEND" =>
        /\ mgrs[1].current_phase = "NO_WORK"
        /\ mgrs[1].next_event = NoTime
        /\ Calls(last.log, "schedule_max_insts") = <<>>
        /\ CallCount(last.log, "yield_False", 1) = 1
        /\ ~last.res

\* C14: after a WORKBEGIN dispatch, whatever the phase was and whether or not
\* a next event was set, the handler has yielded False and the manager is in
\* FF_INIT with next event instruction = init_ff_interval when that interval
\* is positive, and in FF_WORK with next event instruction = ff_interval
\* otherwise.
C14_WorkbeginStartsSampling ==
    last.kind = "WORKBEGIN" =>
        /\ err = "none"
        /\ CallCount(last.log, "yield_False", 1) = 1
        /\ ~last.res
        /\ IF mgrs[1].init_ff_interval > 0
           THEN /\ mgrs[1].current_phase = "FF_INIT"
                /\ mgrs[1].next_event =
                       EventTime(Some(mgrs[1].init_ff_interval), None, None)
           ELSE /\ mgrs[1].current_phase = "FF_WORK"
                /\ mgrs[1].next_event = EventTime(Some(mgrs[1].ff_interval), None, None)

-----------------------------------------------------------------------------
(* C15: the initial phase (SpecStart) *)

\* the phase and next event a PeriodicROIManager is constructed with
StartsAsConfigured ==
    LET m == mgrs[1]
    IN  IF m.start_on_workbegin
        THEN m.current_phase = "NO_WORK" /\ m.next_event = NoTime
        ELSE IF m.init_ff_interval > 0
        THEN /\ m.current_phase = "FF_INIT"
             /\ m.next_event = EventTime(Some(m.init_ff_interval), None, None)
        ELSE /\ m.current_phase = "FF_WORK"
             /\ m.next_event = EventTime(Some(m.ff_interval), None, None)

\* manager 1 waits for WORKBEGIN: NO_WORK, no next event
WaitsForWorkbegin(m) == m.current_phase = "NO_WORK" /\ m.next_event = NoTime

\* C15: a PeriodicROIManager constructed with start_on_workbegin=true is in
\* NO_WORK with no next event, and no step other than the dispatch of a
\* WORKBEGIN takes it out of that: it stays in NO_WORK with no next event,
\* every stop the coordinator asks the engine for is the other manager's, and
\* a MAX_INSTS dispatch makes it call no switchProcessor, resetStats or
\* dumpStats.  Constructed with start_on_workbegin=false it is in FF_INIT
\* with next event init_ff_interval if that is positive, and else in FF_WORK
\* with next event ff_interval.
C15_InitialPhase ==
    /\ [](last.kind = "init" => StartsAsConfigured)
    /\ [][(mgrs[1].start_on_workbegin /\ WaitsForWorkbegin(mgrs[1])
              /\ ~Dispatching("WORKBEGIN")) =>
            /\ WaitsForWorkbegin(mgrs'[1])
            /\ \A k \in DOMAIN last'.log :
                   last'.log[k].op = "schedule_max_insts" =>
                       mgrs'[2].next_event.instruction = Some(last'.log[k].v)
            /\ Dispatching("MAX_INSTS") =>
                   /\ CallCount(last'.log, "switchProcessor", 1) = 0
                   /\ CallCount(last'.log, "resetStats", 1) = 0
                   /\ CallCount(last'.log, "dumpStats", 1) = 0
         ]_vars

\* a MAX_INSTS dispatched before any WORKBEGIN, the waiting manager passed over
C15_Witness ==
    /\ nEvents = 1
    /\ last.kind = "MAX_INSTS"
    /\ mgrs[1].start_on_workbegin
    /\ WaitsForWorkbegin(mgrs[1])
    /\ Invoked(last.log) = <<2>>

-----------------------------------------------------------------------------
(* C16..C18: the SimpleROIManager (SpecStats; the processor there has a    *)
(* callable switch, as the processors the scripts build have)              *)

\* the SimpleROIManagers among the managers
SimpleMgrs == {i \in 1..Len(mgrs) : mgrs[i].kind = "Simple"}

\* the calls manager i made on itself, in order, as the log has them
OwnCalls(log, i) ==
    SelectSeq(log, LAMBDA e : e.m = i /\ e.op \in {"switchProcessor", "resetStats", "dumpStats"})

\* the operations of a sequence of log entries
RECURSIVE Ops(_)
Ops(es) == IF es = <<>> THEN <<>> ELSE <<Head(es).op>> \o Ops(Tail(es))

\* C16: every WORKBEGIN dispatch makes each SimpleROIManager call
\* switchProcessor once and then resetStats once, and dumpStats not at all,
\* and its handler yields False; the processor is switched once.
C16_SimpleWorkbegin ==
    [][Dispatching("WORKBEGIN") =>
          \A i \in SimpleMgrs :
              /\ Ops(OwnCalls(last'.log, i)) = <<"switchProcessor", "resetStats">>
              /\ CallCount(last'.log, "processor.switch", i) = 1
              /\ CallCount(last'.log, "yield_False", i) = 1
              /\ err' = "none"
      ]_vars

\* the second WORKBEGIN a SimpleROIManager handled, the detailed core active
\* before it
C16_Witness ==
    /\ last.kind = "WORKBEGIN"
    /\ SimpleMgrs # {}
    /\ \E i \in SimpleMgrs : mgrs[i].nSwitch >= 2 /\ mgrs[i].nDump = 0
    /\ sim.proc = "ff"

\* C17: every WORKEND dispatch makes each SimpleROIManager call dumpStats,
\* resetStats and switchProcessor, once each and in that order, and its
\* handler yields False.
C17_SimpleWorkend ==
    [][Dispatching("WORKEND") =>
          \A i \in SimpleMgrs :
              /\ Ops(OwnCalls(last'.log, i)) = <<"dumpStats", "resetStats", "switchProcessor">>
              /\ CallCount(last'.log, "processor.switch", i) = 1
              /\ CallCount(last'.log, "yield_False", i) = 1
              /\ err' = "none"
      ]_vars

\* a WORKEND a SimpleROIManager handled after a WORKBEGIN, the run going on
C17_Witness ==
    /\ last.kind = "WORKEND"
    /\ \E i \in SimpleMgrs : mgrs[i].nDump = 1 /\ mgrs[i].nReset = 2 /\ mgrs[i].nSwitch = 2
    /\ ~stopped

\* C18: every EXIT dispatch, the first and any after a resumed run, makes
\* each SimpleROIManager call dumpStats once and yield True, and the dispatch
\* returns stop.
C18_SimpleExit ==
    last.kind = "EXIT" =>
        \A i \in SimpleMgrs :
            /\ err = "none"
            /\ CallCount(last.log, "dumpStats", i) = 1
            /\ CallCount(last.log, "yield_True", i) = 1
            /\ last.res

-----------------------------------------------------------------------------
(* C19: the PeriodicROIManager's EXIT handler (SpecPeriodic) *)

\* C19: every EXIT dispatch, in whatever phase and also after a resumed run,
\* makes the PeriodicROIManager's handler yield True, so that the dispatch
\* returns stop; in phase ROI the handler first calls dumpStats once and adds
\* one to the completed-ROI count, in any other phase it does neither; in
\* every phase it then calls resetStats once.
C19_PeriodicExit ==
    [][Dispatching("EXIT") =>
          /\ err' = "none"
          /\ CallCount(last'.log, "yield_True", 1) = 1
          /\ last'.res /\ stopped'
          /\ CallCount(last'.log, "resetStats", 1) = 1
          /\ IF mgrs[1].current_phase = "ROI"
             THEN /\ CallCount(last'.log, "dumpStats", 1) = 1
                  /\ mgrs'[1].completed_rois = mgrs[1].completed_rois + 1
                  /\ FirstCall(last'.log, "dumpStats", 1) < FirstCall(last'.log, "resetStats", 1)
             ELSE /\ CallCount(last'.log, "dumpStats", 1) = 0
                  /\ mgrs'[1].completed_rois = mgrs[1].completed_rois
      ]_vars

\* a second EXIT in phase ROI, after the run was resumed
C19_Witness ==
    /\ last.kind = "EXIT"
    /\ mgrs[1].current_phase = "ROI"
    /\ mgrs[1].completed_rois = 2
    /\ mgrs[1].nDump = 2
    /\ stopped

-----------------------------------------------------------------------------
(* C20: switch_processor's readiness (SpecSwitch) *)

\* manager i has a coordinator, the coordinator a simulator, and the simulator
\* is instantiated
Ready(i) == mgrs[i].coordinator /\ coord.simulator /\ sim.instantiated

\* C20: a call of switch_processor by a manager that has no coordinator, or
\* whose coordinator has no simulator, or whose simulator is not instantiated,
\* raises the ValueError of validate_simulator and leaves the active processor
\* as it is; a call on a ready manager whose processor has no usable switch
\* raises the ValueError that says the processor is not switchable, and
\* switches nothing.
C20_SwitchReadiness ==
    [][\A i \in 1..Len(mgrs) :
          CallCount(last'.log, "switchProcessor", i) > 0 =>
              /\ ~Ready(i) => (err' = "ValueError" /\ sim'.proc = sim.proc)
              /\ (Ready(i) /\ sim.switch # "callable") =>
                     (err' = "ValueError" /\ sim'.proc = sim.proc)
      ]_vars

-----------------------------------------------------------------------------
(* C21, C22: statistics and time before the wiring is complete (SpecWiring) *)

\* the step is a statistics call made by the script, on the coordinator or on
\* a manager
StatsCall ==
    last'.kind \in {"reset_stats", "dump_stats", "manager.reset_stats", "manager.dump_stats"}

\* the statistics call of the step reaches no simulator: it is made on a
\* manager with no coordinator, or the coordinator has no simulator
Unwired ==
    \/ ~coord.simulator
    \/ /\ last'.kind \in {"manager.reset_stats", "manager.dump_stats"}
       /\ \E i \in 1..Len(mgrs) :
              /\ CallCount(last'.log, "resetStats", i) + CallCount(last'.log, "dumpStats", i) > 0
              /\ ~mgrs[i].coordinator

\* C21: reset_stats and dump_stats called on a manager with no coordinator,
\* or on or through a coordinator with no simulator, return without an
\* exception, leave total_instructions and total_cycles as they were, and
\* make no call on the simulator: no statistics are read, reset or dumped.
C21_UnwiredStatsSkipped ==
    [][(StatsCall /\ Unwired) =>
          /\ err' = "none"
          /\ coord' = coord
          /\ sim' = sim
          /\ Calls(last'.log, "coord.reset_stats") = <<>>
          /\ Calls(last'.log, "coord.dump_stats") = <<>>
          /\ Calls(last'.log, "m5.stats.dump") = <<>>
      ]_vars

\* a reset_stats on a manager that has a coordinator which has no simulator
C21_Witness ==
    /\ last.kind = "manager.reset_stats"
    /\ mgrs[1].coordinator
    /\ ~coord.simulator
    /\ Calls(last.log, "coord.reset_stats.skip") # <<>>
    /\ err = "none"

\* the point a get_current_time() call returned, read from its log entries
Returned(log) ==
    EventTime(Some(log[1].v), Some(log[1].u), Some(log[2].v))

\* C22: get_current_time() of a manager with no coordinator, and of a
\* coordinator with no simulator or a simulator not instantiated, returns the
\* point with the three axes at 0; otherwise it returns instruction =
\* total_instructions + the live instruction count since the last reset,
\* cycle = total_cycles, tick = 0; the call changes nothing.
C22_CurrentTime ==
    [][last'.kind \in {"get_current_time", "manager.get_current_time"} =>
          /\ Returned(last'.log) =
                 (IF \/ last'.kind = "manager.get_current_time"
                        /\ ~mgrs[last'.log[1].m].coordinator
                     \/ ~coord.simulator
                     \/ ~sim.instantiated
                  THEN EventTime(Some(0), Some(0), Some(0))
                  ELSE EventTime(Some(coord.total_instructions + sim.simInsts),
                                 Some(coord.total_cycles), Some(0)))
          /\ UNCHANGED <<mgrs, coord, sim, err, nEvents, stopped>>
      ]_vars

\* a manager's get_current_time() after a reset and a further run: both the
\* cumulative and the live count are part of the instruction returned
C22_Witness ==
    /\ last.kind = "manager.get_current_time"
    /\ coord.total_instructions > 0
    /\ sim.simInsts > 0
    /\ last.log[1].v = coord.total_instructions + sim.simInsts

-----------------------------------------------------------------------------
(* C23: the intervals of a constructed PeriodicROIManager (SpecConstruct) *)

\* C23: no PeriodicROIManager has a negative ff_interval, warmup_interval,
\* roi_interval or init_ff_interval: a construction with a negative interval,
\* passed as an argument or taken from the parsed configuration, raises and
\* leaves no manager.
C23_NoNegativeInterval ==
    \A i \in 1..Len(mgrs) :
        mgrs[i].kind = "Periodic" =>
            /\ mgrs[i].ff_interval >= 0
            /\ mgrs[i].warmup_interval >= 0
            /\ mgrs[i].roi_interval >= 0
            /\ mgrs[i].init_ff_interval >= 0

-----------------------------------------------------------------------------
(* C24..: the PeriodicROIManager's transitions (SpecPeriodic) *)

\* the next event the claim gives a phase on entry
WakeupOf(m, phase) ==
    IF phase = "NO_WORK" THEN NoTime
    ELSE EventTime(Some(IntervalOf(m, phase)), None, None)

\* C24: the phase changes only in a step that invokes a handler of the
\* manager, and after every such change the next event is the interval
\* configured for the phase entered (ff_interval for FF_WORK, warmup_interval
\* for WARMUP, roi_interval for ROI, init_ff_interval for FF_INIT), and has no
\* axis defined for NO_WORK.
C24_OneWakeupPerTransition ==
    [][mgrs'[1].current_phase # mgrs[1].current_phase =>
          /\ CallCount(last'.log, "invoke", 1) = 1
          /\ mgrs'[1].next_event = WakeupOf(mgrs'[1], mgrs'[1].current_phase)
      ]_vars

\* C25: a MAX_INSTS handler invocation in phase FF_INIT makes no call and
\* enters FF_WORK; in FF_WORK it calls switchProcessor once, and neither
\* resetStats nor dumpStats, and enters WARMUP; in WARMUP it calls resetStats
\* once, and neither switchProcessor nor dumpStats, and enters ROI; each of
\* the three yields False and leaves the completed-ROI count as it was.
C25_NonRoiSteps ==
    [][(Dispatching("MAX_INSTS") /\ CallCount(last'.log, "invoke", 1) = 1
          /\ mgrs[1].current_phase \in {"FF_INIT", "FF_WORK", "WARMUP"}) =>
          /\ err' = "none"
          /\ CallCount(last'.log, "yield_False", 1) = 1
          /\ ~last'.res
          /\ mgrs'[1].completed_rois = mgrs[1].completed_rois
          /\ CASE mgrs[1].current_phase = "FF_INIT" ->
                    /\ Ops(OwnCalls(last'.log, 1)) = <<>>
                    /\ mgrs'[1].current_phase = "FF_WORK"
               [] mgrs[1].current_phase = "FF_WORK" ->
                    /\ Ops(OwnCalls(last'.log, 1)) = <<"switchProcessor">>
                    /\ mgrs'[1].current_phase = "WARMUP"
               [] mgrs[1].current_phase = "WARMUP" ->
                    /\ Ops(OwnCalls(last'.log, 1)) = <<"resetStats">>
                    /\ mgrs'[1].current_phase = "ROI"
      ]_vars

\* the coordinator's merge asked the engine for a stop in this dispatch
StopRequested(log) == CallCount(log, "schedule_max_insts", 0) > 0

\* the sampler is idle and its next event is still defined
IdlePending ==
    mgrs[1].current_phase = "NO_WORK" /\ mgrs[1].next_event # NoTime

\* the sampler is idle and its next event is undefined
IdleQuiet ==
    mgrs[1].current_phase = "NO_WORK" /\ mgrs[1].next_event = NoTime

\* the run is over: a stop verdict, an exception, or the last event of the run
RunOver == stopped \/ err # "none" \/ nEvents >= MaxLiveEvents

\* C26: in phase NO_WORK every dispatch but that of a WORKBEGIN leaves the
\* phase NO_WORK; a MAX_INSTS handler invocation in NO_WORK makes no
\* switchProcessor, resetStats or dumpStats call, yields False, leaves the
\* next event undefined, and the merge of that dispatch asks for no stop;
\* while the next event is undefined no dispatch but a WORKBEGIN asks for
\* one; and an idle sampler whose next event is still defined comes to have
\* it undefined, unless a WORKBEGIN arrives or the run ends first.
C26_IdleAfterWorkend ==
    /\ [][(mgrs[1].current_phase = "NO_WORK" /\ nEvents' = nEvents + 1) =>
            /\ sim.exit # "WORKBEGIN" => mgrs'[1].current_phase = "NO_WORK"
            /\ (sim.exit = "MAX_INSTS" /\ CallCount(last'.log, "invoke", 1) = 1) =>
                  /\ Ops(OwnCalls(last'.log, 1)) = <<>>
                  /\ CallCount(last'.log, "yield_False", 1) = 1
                  /\ ~last'.res
                  /\ mgrs'[1].next_event = NoTime
                  /\ ~StopRequested(last'.log)
            /\ (sim.exit # "WORKBEGIN" /\ mgrs[1].next_event = NoTime) =>
                  ~StopRequested(last'.log)
         ]_vars
    /\ (IdlePending ~> (IdleQuiet \/ mgrs[1].current_phase # "NO_WORK" \/ RunOver))

\* the handler of MAX_INSTS is invoked in phase ROI, and the ROI it ends is
\* the n-th
EndsRoi(n) ==
    /\ Dispatching("MAX_INSTS")
    /\ CallCount(last'.log, "invoke", 1) = 1
    /\ mgrs[1].current_phase = "ROI"
    /\ mgrs[1].completed_rois + 1 = n

\* C28: a MAX_INSTS that ends an ROI with the count of completed ROIs still
\* below the cap, or with no cap, calls dumpStats and then switchProcessor,
\* adds one to the count, sets the next event to ff_interval, enters FF_WORK
\* and yields False; the MAX_INSTS whose ROI brings the count to the cap,
\* with continue_sim false, calls dumpStats and then resetStats, adds one to
\* the count, makes no switchProcessor call and has stop=true returned.
C28_RoiCompletionOrder ==
    [][\A n \in 1..MaxSeqEvents : EndsRoi(n) =>
          LET m == mgrs[1]
          IN  /\ (m.num_rois = None \/ n < Val(m.num_rois)) =>
                    /\ Ops(OwnCalls(last'.log, 1)) = <<"dumpStats", "switchProcessor">>
                    /\ mgrs'[1].completed_rois = n
                    /\ mgrs'[1].next_event = EventTime(Some(m.ff_interval), None, None)
                    /\ mgrs'[1].current_phase = "FF_WORK"
                    /\ ~last'.res
              /\ (m.num_rois = Some(n) /\ ~m.continue_sim) =>
                    /\ Ops(OwnCalls(last'.log, 1)) = <<"dumpStats", "resetStats">>
                    /\ mgrs'[1].completed_rois = n
                    /\ CallCount(last'.log, "yield_True", 1) = 1
                    /\ last'.res
                    /\ stopped'
      ]_vars

\* an ROI was ended below the cap, and a later one has just reached the cap
C28_Witness ==
    /\ last.kind = "MAX_INSTS"
    /\ stopped
    /\ mgrs[1].num_rois = Some(MaxRois)
    /\ mgrs[1].completed_rois = MaxRois
    /\ mgrs[1].nDump = MaxRois
    /\ mgrs[1].nSwitch = 2 * MaxRois - 1

-----------------------------------------------------------------------------
(* C27..: the coordinator's dispatch and registration (SpecCoord) *)

\* the positions of the entries of log with one of the operations ops
Positions(log, ops) == {j \in 1..Len(log) : log[j].op \in ops}

HandlerOps == {"invoke", "yield_True", "yield_False", "yield_None"}

\* the instruction wakeups the managers ms have defined
Wakeups(ms) ==
    {Val(ms[i].next_event.instruction) :
        i \in {j \in 1..Len(ms) : ms[j].next_event.instruction # None}}

\* the stops the entries of log asked the engine for
Requests(log) == {log[j].v : j \in Positions(log, {"schedule_max_insts"})}

\* C27: every dispatch, of MAX_INSTS or of an unscheduled kind, makes
\* exactly one schedule merge, after every handler call of the dispatch and
\* before the coordinator yields its verdict, and the merge asks for the
\* earliest wakeup the managers have once the handlers have run.
C27_OneMergePerDispatch ==
    [][nEvents' = nEvents + 1 =>
          /\ Cardinality(Positions(last'.log, {"_schedule"})) = 1
          /\ \A at \in Positions(last'.log, {"_schedule"}) :
                /\ \A j \in Positions(last'.log, HandlerOps) : j < at
                /\ \A j \in Positions(last'.log, {"coord.yield"}) : j > at
          /\ Cardinality(Positions(last'.log, {"schedule_max_insts"})) <= 1
          /\ Requests(last'.log) =
                 IF Wakeups(mgrs') = {} THEN {} ELSE {Min(Wakeups(mgrs'))}
      ]_vars

\* C29: once register(simulator) has been called, every manager's
\* coordinator is set and the coordinator holds one handler table for each
\* manager, the i-th being the one manager i returns; the register call made
\* one schedule merge; and a dispatch calls a handler of manager i only for
\* a kind that manager i's own table holds.
C29_Registration ==
    /\ coord.simulator =>
          /\ Len(coord.handlers) = Len(mgrs)
          /\ \A i \in 1..Len(mgrs) :
                /\ mgrs[i].coordinator
                /\ coord.handlers[i] = MgrEventHandlers(mgrs[i])
    /\ last.kind = "register" =>
          /\ coord.simulator
          /\ Cardinality(Positions(last.log, {"_schedule"})) = 1
    /\ last.kind \in Kinds =>
          \A i \in 1..Len(mgrs) :
              /\ CallCount(last.log, "invoke", i) <= 1
              /\ CallCount(last.log, "invoke", i) = 1 =>
                    last.kind \in MgrEventHandlers(mgrs[i])

\* managers with different tables have been registered and one was called
C29_Witness ==
    /\ Len(mgrs) = MaxMgrs
    /\ Len(coord.handlers) = MaxMgrs
    /\ coord.handlers[1] # coord.handlers[2]
    /\ last.kind \in Kinds
    /\ CallCount(last.log, "invoke", 2) = 1
    /\ CallCount(last.log, "invoke", 1) = 0
    /\ last.kind \notin coord.handlers[1]

-----------------------------------------------------------------------------
(* C30: the active processor in each phase (SpecPeriodic) *)

\* C30: the detailed core is the active one whenever the phase is WARMUP or
\* ROI, and the fast-forward core whenever the phase is FF_INIT or FF_WORK.
C30_ProcessorMatchesPhase ==
    /\ mgrs[1].current_phase \in {"WARMUP", "ROI"} => sim.proc = "detailed"
    /\ mgrs[1].current_phase \in {"FF_INIT", "FF_WORK"} => sim.proc = "ff"

-----------------------------------------------------------------------------
(* C31: the SimpleROIManager's processor (SpecStats) *)

\* a SimpleROIManager is the only manager, and its handler of kind k has just
\* yielded
SimpleAloneAfter(k) ==
    /\ Len(mgrs) = 1
    /\ mgrs[1].kind = "Simple"
    /\ last.kind = k
    /\ err = "none"
    /\ CallCount(last.log, "invoke", 1) = 1

\* C31: with a SimpleROIManager alone, started on the fast-forward core, the
\* detailed core is the active one after every WORKBEGIN handler invocation
\* and the fast-forward core after every WORKEND handler invocation.
C31_SimpleProcessor ==
    /\ SimpleAloneAfter("WORKBEGIN") => sim.proc = "detailed"
    /\ SimpleAloneAfter("WORKEND") => sim.proc = "ff"

-----------------------------------------------------------------------------
(* C32..: the PeriodicROIManager's count of ROIs (SpecPeriodic) *)

\* C32: in every state the completed-ROI count of the PeriodicROIManager is
\* the number of dumpStats calls it has made, and no step lowers the count.
C32_CountIsDumps ==
    /\ [](mgrs[1].completed_rois = mgrs[1].nDump)
    /\ [][mgrs'[1].completed_rois >= mgrs[1].completed_rois]_vars

\* an ROI was dumped at a MAX_INSTS and another one at a later event
C32_Witness ==
    /\ mgrs[1].completed_rois = 2
    /\ mgrs[1].nDump = 2
    /\ last.kind # "MAX_INSTS"

\* C33: with num_rois = N and continue_sim false, in a run of MAX_INSTS,
\* WORKBEGIN, WORKEND and EXIT events up to its first stop verdict, the
\* number of statistics blocks the manager has dumped is at most N.
C33_CapIsACap ==
    (mgrs[1].num_rois # None /\ ~mgrs[1].continue_sim) =>
        /\ mgrs[1].nDump <= Val(mgrs[1].num_rois)
        /\ mgrs[1].completed_rois <= Val(mgrs[1].num_rois)

-----------------------------------------------------------------------------
(* C34..: wakeups and the engine's stops *)

\* the instruction counts the statistics dumped in log were taken over
DumpedSpans(log) == {log[j].v : j \in Positions(log, {"m5.stats.dump"})}

\* C34: with one PeriodicROIManager and CHECKPOINT or SIMPOINT_BEGIN events
\* between the MAX_INSTS events, the statistics a MAX_INSTS dumps at the end
\* of an ROI were taken over exactly roi_interval instructions since the
\* resetStats that began it, and a MAX_INSTS that ends a WARMUP comes
\* exactly warmup_interval instructions after the one that began it.
C34_MeasurementWindow ==
    [][(Dispatching("MAX_INSTS") /\ CallCount(last'.log, "invoke", 1) = 1) =>
          /\ mgrs[1].current_phase = "ROI" =>
                /\ DumpedSpans(last'.log) = {mgrs[1].roi_interval}
                /\ sim.insts - mgrs[1].set_at = mgrs[1].roi_interval
          /\ mgrs[1].current_phase = "WARMUP" =>
                sim.insts - mgrs[1].set_at = mgrs[1].warmup_interval
      ]_vars

\* the managers whose next event has an instruction count
Timed == {i \in 1..Len(mgrs) : mgrs[i].next_event.instruction # None}

\* C35: with two or more managers registered whose instruction wakeups
\* differ, a MAX_INSTS handler is invoked no earlier than the instruction
\* count at which its manager set the wakeup plus the interval it set.
C35_NoEarlyWakeup ==
    [][(/\ Dispatching("MAX_INSTS")
        /\ \E i, j \in Timed : mgrs[i].next_event.instruction # mgrs[j].next_event.instruction)
          => \A i \in 1..Len(mgrs) :
                CallCount(last'.log, "invoke", i) >= 1 =>
                    sim.insts >= mgrs[i].set_at + Val(mgrs[i].next_event.instruction)
      ]_vars

\* manager i is registered, declares MAX_INSTS and has an instruction wakeup
Pending(i) ==
    /\ i <= Len(coord.handlers)
    /\ "MAX_INSTS" \in coord.handlers[i]
    /\ mgrs[i].next_event.instruction # None

\* the last dispatch was one of MAX_INSTS and invoked manager i's handler
InvokedMax(i) == last.kind = "MAX_INSTS" /\ CallCount(last.log, "invoke", i) >= 1

-----------------------------------------------------------------------------
(* C37..: the end of an ROI *)

\* C37: whenever the PeriodicROIManager's phase changes from ROI to another
\* phase, by a MAX_INSTS, a WORKBEGIN or a WORKEND, that handler invocation
\* calls dumpStats exactly once and adds one to the count of completed ROIs.
C37_RoiExitDumps ==
    [][(mgrs[1].current_phase = "ROI" /\ mgrs'[1].current_phase # "ROI") =>
          /\ CallCount(last'.log, "invoke", 1) = 1
          /\ CallCount(last'.log, "dumpStats", 1) = 1
          /\ mgrs'[1].completed_rois = mgrs[1].completed_rois + 1
      ]_vars

\* the world w with every handler's point of suspension forgotten: what is
\* left of a manager is its phase, its count, its next event and its
\* configuration
Forget(w) ==
    [w EXCEPT !.mgrs = [i \in DOMAIN w.mgrs |->
                           [w.mgrs[i] EXCEPT !.pcMax = "top", !.pcExit = "start"]]]

\* C38: for every sequence of events, those delivered after a stop verdict
\* included, a dispatch makes the calls and returns the verdict that the
\* handlers' step from the top makes and returns on the managers' phase,
\* count, next event and configuration alone, wherever the previous
\* invocation was suspended.
C38_StepOnly ==
    [][\A k \in Kinds : Dispatching(k) =>
          \E ch \in ChoiceFns({}) :
              \E m \in {CoordHandle(Forget([World EXCEPT !.sim.exit = "none"]), k, ch)} :
                  /\ last'.log = m.log
                  /\ err' = m.err
                  /\ stopped' = (Ok(m) /\ m.res)
      ]_vars

\* C39: with num_rois = N configured, N = 0 included, and continue_sim
\* false, a MAX_INSTS that ends an ROI with the count of completed ROIs at
\* N or above returns the stop verdict.
C39_CapStops ==
    [][(/\ Dispatching("MAX_INSTS")
        /\ CallCount(last'.log, "invoke", 1) = 1
        /\ mgrs[1].current_phase = "ROI"
        /\ mgrs[1].num_rois # None
        /\ ~mgrs[1].continue_sim
        /\ mgrs'[1].completed_rois >= Val(mgrs[1].num_rois))
          => /\ CallCount(last'.log, "yield_True", 1) = 1
             /\ stopped'
      ]_vars

====
